---- MODULE Spec2Model ----
(***************************************************************************)
(* Model of the MobiAdvisor query orchestration engine: the QueryProcessor *)
(* (process and its retrieval paths), the LLMClient intent parser and the  *)
(* catalog accessor it relies on.                                          *)
(*                                                                         *)
(* A string is a sequence of word tokens; `includes` is containment of a   *)
(* contiguous run of words; toLowerCase maps each word through a table.    *)
(* A rating is kept in tenths (4.5 is 45).  An absent optional number is   *)
(* Undef, an absent optional string is the empty string.                   *)
(***************************************************************************)
EXTENDS Integers, Sequences, FiniteSets, TLC

VARIABLES
    pc,             \* position of the request inside process()
    userQuery,      \* argument userQuery
    filters,        \* the caller's Filters object
    history,        \* the caller's history array (turns carry phone arrays)
    filters0,       \* value of the caller's filters when process was called
    history0,       \* value of the caller's history when process was called
    previousPhones, \* local previousPhones
    prevTurn,       \* index of the turn whose phones array previousPhones aliases (0: none)
    intent,         \* local intent / correctedIntent
    mergedFilters,  \* local mergedFilters
    phones,         \* local phones
    errorMessage,   \* message of the error caught by process
    response,       \* the ChatResponse process returned
    outcome,        \* "none" | "returned" | "threw": how process ended
    path,           \* which branch built the response
    calls,          \* operations invoked by the current request, in order
    strat,          \* result of each strategy of processSingleQuery
    fallbackPhones, \* result of getFallbackResults ("none" | "threw" | "ok")
    hasApiKey,      \* VectorClient.hasApiKey
    initialized,    \* VectorClient.initialized
    dbConfigured,   \* TURSO_DATABASE_URL is set
    mf,             \* mergeFilters check: caller filters
    mc,             \* mergeFilters check: intent constraints
    mres,           \* mergeFilters check: merged result
    ptext,          \* parseIntent check: text the generation service returned
    pres,           \* parseIntent check: the intent parseIntent returned
    call,           \* a function applied on its own: its name and arguments
    result          \* what that function returned

vars == <<pc, userQuery, filters, history, filters0, history0, previousPhones,
          prevTurn, intent, mergedFilters, phones, errorMessage,
          response, outcome, path, calls, strat, fallbackPhones, hasApiKey,
          initialized, dbConfigured, mf, mc, mres, ptext, pres, call, result>>

procVars == <<pc, userQuery, filters, history, filters0, history0, previousPhones,
              prevTurn, intent, mergedFilters, phones, errorMessage,
              response, outcome, path, calls, strat, fallbackPhones, hasApiKey,
              initialized, dbConfigured>>

mergeVars == <<mf, mc, mres>>

parseVars == <<ptext, pres>>

callVars == <<call, result>>

----------------------------------------------------------------------------
(* Strings *)

Undef == -1

Min(a, b) == IF a < b THEN a ELSE b
Max(a, b) == IF a > b THEN a ELSE b

\* JavaScript truthiness of an optional number: undefined and 0 are falsy
Truthy(n) == n # Undef /\ n # 0

\* a || b on optional numbers
OrElse(a, b) == IF Truthy(a) THEN a ELSE b

LowerWord(w) ==
    CASE w = "Samsung" -> "samsung"
      [] w = "Galaxy"  -> "galaxy"
      [] w = "S24"     -> "s24"
      [] w = "Apple"   -> "apple"
      [] w = "iPhone"  -> "iphone"
      [] w = "Xiaomi"  -> "xiaomi"
      [] w = "Redmi"   -> "redmi"
      [] w = "Note"    -> "note"
      [] w = "OnePlus" -> "oneplus"
      [] w = "Nord"    -> "nord"
      [] w = "CE"      -> "ce"
      [] w = "Vivo"    -> "vivo"
      [] w = "V30"     -> "v30"
      [] w = "Realme"  -> "realme"
      [] w = "Narzo"   -> "narzo"
      [] w = "Which"   -> "which"
      [] w = "Best"    -> "best"
      [] w = "Rate"    -> "rate"
      [] w = "Limit"   -> "limit"
      [] OTHER         -> w

toLowerCase(s) == [i \in 1..Len(s) |-> LowerWord(s[i])]

\* String.prototype.includes
includes(s, p) ==
    \E i \in 0..(Len(s) - Len(p)) : SubSeq(s, i + 1, i + Len(p)) = p

\* Array.prototype.slice(0, n)
slice(a, n) == SubSeq(a, 1, Min(n, Len(a)))

----------------------------------------------------------------------------
(* Catalog *)

Phone(id, c, m, r, p, ram, bat, cam, mem) ==
    [id |-> id, company_name |-> c, model_name |-> m, user_rating |-> r,
     price_inr |-> p, ram_gb |-> ram, battery_mah |-> bat,
     back_camera_mp |-> cam, memory_gb |-> mem]

\* rows of table phones, in row order
Catalog ==
    << Phone(1, <<"Samsung">>, <<"Galaxy", "S24">>, 45, 70000, 8, 4000, 50, 128),
       Phone(2, <<"Samsung">>, <<"Galaxy", "S24">>, 44, 80000, 8, 4000, 50, 256),
       Phone(3, <<"Apple">>, <<"iPhone", "15">>, 46, 80000, 6, 3300, 48, 128),
       Phone(4, <<"Xiaomi">>, <<"Redmi", "Note", "13">>, 42, 18000, 8, 5000, 108, 256),
       Phone(5, <<"OnePlus">>, <<"Nord", "CE">>, 43, 25000, 8, 5500, 50, 128),
       Phone(6, <<"Vivo">>, <<"V30">>, 41, 30000, 12, 5000, 50, 256),
       Phone(7, <<"Realme">>, <<"Narzo", "60">>, 40, 15000, 6, 5000, 64, 128) >>

Row(id) == Catalog[id]
Rows(ids) == [i \in 1..Len(ids) |-> Row(ids[i])]

\* stable sort (Array.prototype.sort, ORDER BY): equal keys keep their order
SortStable(a, Before(_, _)) ==
    LET n == Len(a)
        rank(i) == Cardinality({j \in 1..n :
                       \/ Before(a[j], a[i])
                       \/ ~Before(a[i], a[j]) /\ j < i}) + 1
    IN  [k \in 1..n |-> a[CHOOSE i \in 1..n : rank(i) = k]]

RatingDesc(x, y) == x.user_rating > y.user_rating
RatingAsc(x, y) == x.user_rating < y.user_rating
RatingDescPriceAsc(x, y) ==
    \/ x.user_rating > y.user_rating
    \/ x.user_rating = y.user_rating /\ x.price_inr < y.price_inr

----------------------------------------------------------------------------
(* Filters *)

NoFilters ==
    [company |-> <<>>, minPrice |-> Undef, maxPrice |-> Undef,
     minCamera |-> Undef, maxCamera |-> Undef, minBattery |-> Undef,
     maxBattery |-> Undef, minRam |-> Undef, maxRam |-> Undef,
     minStorage |-> Undef, maxStorage |-> Undef]

NoConstraints ==
    [min_price |-> Undef, max_price |-> Undef, min_ram |-> Undef,
     max_ram |-> Undef, min_battery |-> Undef, max_battery |-> Undef,
     min_camera |-> Undef, max_camera |-> Undef, min_storage |-> Undef,
     max_storage |-> Undef]

\* the WHERE clause with each bound tested for truthiness instead of
\* !== undefined
FilterMatchesTruthy(f, p) ==
    /\ f.company # <<>> => toLowerCase(p.company_name) = toLowerCase(f.company)
    /\ Truthy(f.minPrice) => p.price_inr >= f.minPrice
    /\ Truthy(f.maxPrice) => p.price_inr <= f.maxPrice
    /\ Truthy(f.minCamera) => p.back_camera_mp >= f.minCamera
    /\ Truthy(f.maxCamera) => p.back_camera_mp <= f.maxCamera
    /\ Truthy(f.minBattery) => p.battery_mah >= f.minBattery
    /\ Truthy(f.maxBattery) => p.battery_mah <= f.maxBattery
    /\ Truthy(f.minRam) => p.ram_gb >= f.minRam
    /\ Truthy(f.maxRam) => p.ram_gb <= f.maxRam
    /\ Truthy(f.minStorage) => p.memory_gb >= f.minStorage
    /\ Truthy(f.maxStorage) => p.memory_gb <= f.maxStorage

\* WHERE clause built by getFilteredPhones
FilterMatches(f, p) ==
    /\ f.company # <<>> => toLowerCase(p.company_name) = toLowerCase(f.company)
    /\ f.minPrice # Undef => p.price_inr >= f.minPrice
    /\ f.maxPrice # Undef => p.price_inr <= f.maxPrice
    /\ f.minCamera # Undef => p.back_camera_mp >= f.minCamera
    /\ f.maxCamera # Undef => p.back_camera_mp <= f.maxCamera
    /\ f.minBattery # Undef => p.battery_mah >= f.minBattery
    /\ f.maxBattery # Undef => p.battery_mah <= f.maxBattery
    /\ f.minRam # Undef => p.ram_gb >= f.minRam
    /\ f.maxRam # Undef => p.ram_gb <= f.maxRam
    /\ f.minStorage # Undef => p.memory_gb >= f.minStorage
    /\ f.maxStorage # Undef => p.memory_gb <= f.maxStorage

FilteredLimit == 50

\* SELECT * FROM phones WHERE ... ORDER BY user_rating DESC, price_inr ASC
\* LIMIT 50 over the rows of table
selectFiltered(table, f) ==
    slice(SortStable(SelectSeq(table, LAMBDA p : FilterMatches(f, p)),
                     RatingDescPriceAsc),
          FilteredLimit)

getFilteredPhones(f) == selectFiltered(Catalog, f)

----------------------------------------------------------------------------
(* Intent *)

UndefField == [kind |-> "undef", items |-> <<>>]
ListField(xs) == [kind |-> "list", items |-> xs]

\* a ParsedIntent as process reads it: entities.company, entities.model,
\* constraints (absent reads like {}), task and comparison_type
Intent(task, company, model, constraints, ctype) ==
    [kind |-> "object", task |-> task, company |-> company, model |-> model,
     constraints |-> constraints, comparison_type |-> ctype]

\* the literal returned by the catch block of parseIntent
DefaultIntent == Intent("query", UndefField, UndefField, NoConstraints, "single")

\* intent.entities?.company?.length
FieldLength(fld) == IF fld.kind = "list" THEN Len(fld.items) ELSE 0

----------------------------------------------------------------------------
(* QueryProcessor.mergeFilters *)

\* if (c && (!m || c > m)) m = c
mergeMin(c, m) == IF Truthy(c) /\ (~Truthy(m) \/ c > m) THEN c ELSE m

\* if (c && (!m || c < m)) m = c
mergeMax(c, m) == IF Truthy(c) /\ (~Truthy(m) \/ c < m) THEN c ELSE m

mergeFilters(f, it) ==
    LET c == it.constraints
    IN  [company    |-> IF FieldLength(it.company) > 0 /\ f.company = <<>>
                        THEN it.company.items[1] ELSE f.company,
         minPrice   |-> mergeMin(c.min_price, f.minPrice),
         maxPrice   |-> mergeMax(c.max_price, f.maxPrice),
         minRam     |-> mergeMin(c.min_ram, f.minRam),
         maxRam     |-> mergeMax(c.max_ram, f.maxRam),
         minBattery |-> mergeMin(c.min_battery, f.minBattery),
         maxBattery |-> mergeMax(c.max_battery, f.maxBattery),
         minCamera  |-> mergeMin(c.min_camera, f.minCamera),
         maxCamera  |-> mergeMax(c.max_camera, f.maxCamera),
         minStorage |-> mergeMin(c.min_storage, f.minStorage),
         maxStorage |-> mergeMax(c.max_storage, f.maxStorage)]

----------------------------------------------------------------------------
(* mergeFilters applied to bounded inputs *)

\* largest numeric bound drawn for a filter or a constraint
MaxBound == 2

Dims == {"price", "ram", "battery", "camera", "storage"}

BoundVals == {Undef} \cup (0..MaxBound)

FiltersOn(d, lo, hi, co) ==
    CASE d = "price"   -> [NoFilters EXCEPT !.minPrice = lo, !.maxPrice = hi, !.company = co]
      [] d = "ram"     -> [NoFilters EXCEPT !.minRam = lo, !.maxRam = hi, !.company = co]
      [] d = "battery" -> [NoFilters EXCEPT !.minBattery = lo, !.maxBattery = hi, !.company = co]
      [] d = "camera"  -> [NoFilters EXCEPT !.minCamera = lo, !.maxCamera = hi, !.company = co]
      [] d = "storage" -> [NoFilters EXCEPT !.minStorage = lo, !.maxStorage = hi, !.company = co]

ConstraintsOn(d, lo, hi) ==
    CASE d = "price"   -> [NoConstraints EXCEPT !.min_price = lo, !.max_price = hi]
      [] d = "ram"     -> [NoConstraints EXCEPT !.min_ram = lo, !.max_ram = hi]
      [] d = "battery" -> [NoConstraints EXCEPT !.min_battery = lo, !.max_battery = hi]
      [] d = "camera"  -> [NoConstraints EXCEPT !.min_camera = lo, !.max_camera = hi]
      [] d = "storage" -> [NoConstraints EXCEPT !.min_storage = lo, !.max_storage = hi]

MergeIdle == [done |-> FALSE, merged |-> NoFilters]

InitMerge ==
    /\ \E d \in Dims, flo \in BoundVals, fhi \in BoundVals,
          co \in {<<>>, <<"apple">>} :
          mf = FiltersOn(d, flo, fhi, co)
    /\ \E d \in Dims, clo \in BoundVals, chi \in BoundVals,
          cc \in {UndefField, ListField(<<>>), ListField(<<<<"samsung">>, <<"vivo">>>>)} :
          mc = Intent("query", cc, UndefField, ConstraintsOn(d, clo, chi), "single")
    /\ mres = MergeIdle

MergeCall ==
    /\ ~mres.done
    /\ mres' = [done |-> TRUE, merged |-> mergeFilters(mf, mc)]
    /\ UNCHANGED <<mf, mc>>

----------------------------------------------------------------------------
(* QueryProcessor: phrase heuristics and history *)

followUpPhrases ==
    { <<"tell", "me", "more">>, <<"more", "about">>, <<"first", "one">>,
      <<"second", "one">>, <<"this", "phone">>, <<"that", "phone">>,
      <<"the", "first">>, <<"the", "second">>, <<"which", "one">>,
      <<"more", "details">>, <<"explain">>, <<"why">>, <<"what", "about">>,
      <<"which", "is", "best">>, <<"which", "is", "the", "best">>,
      <<"best", "among">>, <<"best", "one">>, <<"best", "phone">>,
      <<"recommend">>, <<"should", "i", "buy">>, <<"should", "i", "get">>,
      <<"which", "should", "i">>, <<"top", "pick">>, <<"top", "choice">>,
      <<"among", "these">>, <<"among", "all">>, <<"of", "these">>,
      <<"out", "of", "these">> }

bestPhrases ==
    { <<"which", "is", "best">>, <<"which", "one", "is", "best">>,
      <<"which", "phone", "is", "best">>, <<"which", "is", "the", "best">>,
      <<"which", "one", "is", "the", "best">>,
      <<"which", "phone", "is", "the", "best">>, <<"best", "among">>,
      <<"best", "one">>, <<"best", "phone">>, <<"recommend", "one">>,
      <<"recommend", "me", "one">>, <<"should", "i", "buy">>,
      <<"should", "i", "get">>, <<"which", "should", "i">>, <<"pick", "one">>,
      <<"top", "choice">>, <<"top", "pick">> }

isFollowUpQuery(query) ==
    \E phrase \in followUpPhrases : includes(toLowerCase(query), phrase)

isBestPhoneQuery(query) ==
    \E phrase \in bestPhrases : includes(toLowerCase(query), phrase)

\* a turn of the history: role, and the optional phones array
Turn(role, has, phs) == [role |-> role, hasPhones |-> has, phones |-> phs]

CarriesPhones(t) == t.hasPhones /\ Len(t.phones) > 0

\* index of the most recent turn that carries phones, 0 when none does
LastCarryingTurn(h) ==
    IF \E i \in 1..Len(h) : CarriesPhones(h[i])
    THEN CHOOSE i \in 1..Len(h) :
            /\ CarriesPhones(h[i])
            /\ \A j \in (i + 1)..Len(h) : ~CarriesPhones(h[j])
    ELSE 0

getPhonesFromHistory(h) ==
    IF LastCarryingTurn(h) = 0 THEN <<>> ELSE h[LastCarryingTurn(h)].phones

\* the sort of the follow-up branch with its comparator reversed
sortedPhonesAscending(prev) == SortStable(prev, RatingAsc)

\* [...previousPhones].sort((a, b) => b.user_rating - a.user_rating)
sortedPhones(prev) == SortStable(prev, RatingDesc)

\* the array the sort of the follow-up branch writes into: a fresh copy
SortTargetAlias(src, fresh) == src
SortTarget(src, fresh) == fresh

\* the object mergeFilters assigns into: a fresh copy of the caller's filters
MergeTargetAlias(src, fresh) == src
MergeTarget(src, fresh) == fresh

----------------------------------------------------------------------------
(* QueryProcessor.classifyError *)

MsgBusy == <<"Our AI service is temporarily busy. While waiting, here are some phones that might match your query:">>
MsgQuota == <<"AI service quota reached. Here are phones from our database that match your search:">>
MsgNetwork == <<"Connection issue with AI service. Here are phones that might help:">>
MsgAuth == <<"AI service configuration issue. Here are some phone recommendations from our database:">>
MsgGeneric == <<"Sorry, I couldn't generate a personalized response. Here are some phones that might match your search:">>

AnyIncluded(s, pats) == \E p \in pats : includes(s, p)

classifyError(msg) ==
    LET lowerError == toLowerCase(msg)
    IN  IF AnyIncluded(lowerError, {<<"rate_limit">>, <<"rate", "limit">>, <<"429">>,
                                    <<"too", "many", "requests">>})
        THEN [userMessage |-> MsgBusy, technicalMessage |-> <<"Rate limit exceeded">>]
        ELSE IF AnyIncluded(lowerError, {<<"quota">>, <<"insufficient_quota">>,
                                         <<"billing">>, <<"exceeded">>})
        THEN [userMessage |-> MsgQuota, technicalMessage |-> <<"API quota exceeded">>]
        ELSE IF AnyIncluded(lowerError, {<<"network">>, <<"connection">>, <<"econnrefused">>,
                                         <<"timeout">>, <<"fetch", "failed">>})
        THEN [userMessage |-> MsgNetwork, technicalMessage |-> <<"Network connection error">>]
        ELSE IF AnyIncluded(lowerError, {<<"invalid_api_key">>, <<"authentication">>,
                                         <<"unauthorized">>, <<"401">>})
        THEN [userMessage |-> MsgAuth, technicalMessage |-> <<"API authentication error">>]
        ELSE [userMessage |-> MsgGeneric, technicalMessage |-> msg]

----------------------------------------------------------------------------
(* QueryProcessor.getFallbackResults *)

\* the first alternative of the price pattern, (\d{1,3})[k,K], on one word:
\* the number before a k, a K or a comma (the class [k,K] holds all three),
\* or Undef
ThousandsOf(w) ==
    CASE w = "20k" -> 20
      [] w = "15K" -> 15
      [] w = "2," -> 2
      [] OTHER -> Undef

\* the second alternative, (\d{4,6}), on one word: the number, or Undef
DigitsOf(w) ==
    CASE w = "50000" -> 50000
      [] w = "5000" -> 5000
      [] OTHER -> Undef

HasPrice(w) == ThousandsOf(w) # Undef \/ DigitsOf(w) # Undef

PriceOfWord(w) == IF ThousandsOf(w) # Undef THEN ThousandsOf(w) * 1000 ELSE DigitsOf(w)

PriceWindow == 10000

fallbackBrands ==
    <<"samsung", "apple", "iphone", "xiaomi", "oneplus", "vivo", "oppo", "realme",
      "motorola">>

Plural(w) ==
    CASE w = "samsung" -> "samsungs" [] w = "apple" -> "apples"
      [] w = "iphone" -> "iphones" [] w = "xiaomi" -> "xiaomis"
      [] w = "oneplus" -> "onepluss" [] w = "vivo" -> "vivos"
      [] w = "oppo" -> "oppos" [] w = "realme" -> "realmes"
      [] w = "motorola" -> "motorolas"

Elems(a) == {a[i] : i \in 1..Len(a)}

\* the Filters the keyword fallback extracts from the query
fallbackFilters(query) ==
    LET lower == toLowerCase(query)
        keywords == Elems(lower)
        hasPrice == \E i \in 1..Len(query) : HasPrice(query[i])
        first == CHOOSE i \in 1..Len(query) :
                    HasPrice(query[i]) /\ \A j \in 1..(i - 1) : ~HasPrice(query[j])
        priceValue == PriceOfWord(query[first])
        withPrice ==
            IF ~hasPrice THEN NoFilters
            ELSE IF includes(lower, <<"under">>) \/ includes(lower, <<"below">>)
                 THEN [NoFilters EXCEPT !.maxPrice = priceValue]
            ELSE IF includes(lower, <<"above">>) \/ includes(lower, <<"over">>)
                 THEN [NoFilters EXCEPT !.minPrice = priceValue]
            ELSE [NoFilters EXCEPT !.maxPrice = priceValue + PriceWindow,
                                   !.minPrice = Max(0, priceValue - PriceWindow)]
        hit(i) == fallbackBrands[i] \in keywords \/ Plural(fallbackBrands[i]) \in keywords
        hasBrand == \E i \in 1..Len(fallbackBrands) : hit(i)
        b == CHOOSE i \in 1..Len(fallbackBrands) : hit(i) /\ \A j \in 1..(i - 1) : ~hit(j)
    IN  IF ~hasBrand THEN withPrice
        ELSE [withPrice EXCEPT !.company =
                 IF fallbackBrands[b] = "iphone" THEN <<"apple">> ELSE <<fallbackBrands[b]>>]

FallbackLimit == 8


----------------------------------------------------------------------------
(* LLMClient.parseIntent *)

\* A JSON document the generation service may emit.  kind is the JSON type of
\* the top-level value; for an object the fields parseIntent and process read
\* are kept.  A field of entities is absent ("undef"), an array of strings
\* ("list"), a non-array value such as a string ("scalar"), or an array that
\* holds a non-string ("badlist").
NonObject(kind) ==
    [kind |-> kind, task |-> "undef", company |-> UndefField, model |-> UndefField,
     constraints |-> NoConstraints, comparison_type |-> "undef"]

ScalarField == [kind |-> "scalar", items |-> <<>>]
BadListField == [kind |-> "badlist", items |-> <<>>]

\* tokens of the text of a completion
Tok(t) == [t |-> t, doc |-> NonObject("null")]
DocTok(d) == [t |-> "doc", doc |-> d]
Ws == Tok("ws")
Fence == Tok("fence")
JsonWord == Tok("jsonword")
Junk == Tok("junk")

\* String.prototype.trim
RECURSIVE trimStart(_)
trimStart(s) == IF s # <<>> /\ Head(s) = Ws THEN trimStart(Tail(s)) ELSE s

RECURSIVE trimEnd(_)
trimEnd(s) ==
    IF s # <<>> /\ s[Len(s)] = Ws THEN trimEnd(SubSeq(s, 1, Len(s) - 1)) ELSE s

trim(s) == trimEnd(trimStart(s))

\* the code-fence stripping of parseIntent
stripFences(responseText) ==
    LET r0 == trim(responseText)
        r1 == IF Len(r0) >= 2 /\ r0[1] = Fence /\ r0[2] = JsonWord
              THEN SubSeq(r0, 3, Len(r0)) ELSE r0
        r2 == IF r1 # <<>> /\ r1[1] = Fence THEN Tail(r1) ELSE r1
        r3 == IF r2 # <<>> /\ r2[Len(r2)] = Fence
              THEN SubSeq(r2, 1, Len(r2) - 1) ELSE r2
    IN  trim(r3)

\* JSON.parse: one document, white space around it allowed
jsonParses(s) == Len(trim(s)) = 1 /\ trim(s)[1].t = "doc"
jsonValue(s) == trim(s)[1].doc

fieldThrows(fld) == fld.kind \in {"scalar", "badlist"}

lowerField(fld) ==
    IF fld.kind = "list"
    THEN ListField([i \in 1..Len(fld.items) |-> toLowerCase(fld.items[i])])
    ELSE fld

\* normalizeIntent raises a TypeError: intent is null, or company/model is
\* not an array of strings
normalizeThrows(d) ==
    \/ d.kind = "null"
    \/ d.kind = "object" /\ (fieldThrows(d.company) \/ fieldThrows(d.model))

normalizeIntent(d) ==
    IF d.kind = "object"
    THEN [d EXCEPT !.company = lowerField(d.company), !.model = lowerField(d.model)]
    ELSE d

parseIntent(responseText) ==
    LET cleanResponse == stripFences(responseText)
    IN  IF jsonParses(cleanResponse) /\ ~normalizeThrows(jsonValue(cleanResponse))
        THEN normalizeIntent(jsonValue(cleanResponse))
        ELSE DefaultIntent

----------------------------------------------------------------------------
(* LLMClient.summarize *)

phoneKey(p) == p.company_name \o <<"-">> \o p.model_name

SummaryLimit == 4

getUniquePhones(phs, limit) ==
    LET firsts == SelectSeq([i \in 1..Len(phs) |-> i],
                            LAMBDA i : \A j \in 1..(i - 1) : phoneKey(phs[j]) # phoneKey(phs[i]))
    IN  [k \in 1..Min(limit, Len(firsts)) |-> phs[firsts[k]]]

NoResultsMessage == <<"I couldn't find any phones matching your criteria. Could you try: adjusting your price range, trying a different brand, being more specific about features you need">>

RefusalMessage == <<"I'm sorry, but I can only help with questions about mobile phones and related technology. Is there something about phones I can help you with?">>

\* texts the generation service may return for a summary or an answer
Completions == { <<"Here", "is", "what", "I", "found">> }

\* messages of the errors the generation service may raise
ServiceErrors == { <<"429", "Rate", "Limit", "reached">>, <<"fetch", "failed">>,
                   <<"model", "overloaded">> }

Returned(text) == [ok |-> TRUE, text |-> text]
Raised(msg) == [ok |-> FALSE, text |-> msg]

\* generateContent(...).trim(): a completion, or an error of the service
generateContent == {Returned(t) : t \in Completions} \cup {Raised(e) : e \in ServiceErrors}

\* summarize with no test of uniquePhones.length: the service is always asked
summarizeAlwaysAsks(phs) == generateContent

summarize(phs) ==
    IF getUniquePhones(phs, SummaryLimit) = <<>>
    THEN {Returned(NoResultsMessage)}
    ELSE generateContent

----------------------------------------------------------------------------
(* Catalog accessor as the request sees it *)

Ok(phs) == [ok |-> TRUE, phones |-> phs, err |-> <<>>]
Throw(msg) == [ok |-> FALSE, phones |-> <<>>, err |-> msg]

DbError == <<"TURSO_DATABASE_URL", "environment", "variable", "is", "not", "set">>

\* queryPhones: getDatabase() raises when the database is not configured; an
\* error of the execution is swallowed and yields no rows
queryPhones(rows) ==
    IF ~dbConfigured THEN {Throw(DbError)} ELSE {Ok(rows), Ok(<<>>)}

\* SELECT ... WHERE Keep ORDER BY user_rating DESC LIMIT n
topByRating(Keep(_), n) == slice(SortStable(SelectSeq(Catalog, Keep), RatingDesc), n)

\* x LIKE '%term%', both sides lower-cased
like(value, term) == includes(toLowerCase(value), toLowerCase(term))

\* getFallbackResults: the rows getFilteredPhones returned for the extracted
\* filters, sorted by rating, best eight; or the error of the catalog
getFallbackResults(query) ==
    {[o EXCEPT !.phones = slice(SortStable(o.phones, RatingDesc), FallbackLimit)] :
        o \in queryPhones(getFilteredPhones(fallbackFilters(query)))}

----------------------------------------------------------------------------
(* VectorClient.searchProducts *)

TopK == 5

\* ids the similarity index may return for a query, best first
RemoteMatches == { <<>>, <<3>>, <<3, 1, 2, 4, 5>> }

\* item 0 of intent.entities.company, or the empty string
firstCompany(it) == IF FieldLength(it.company) > 0 THEN it.company.items[1] ELSE <<>>

semanticFilters(f, it) ==
    [NoFilters EXCEPT
        !.maxPrice = OrElse(f.maxPrice, it.constraints.max_price),
        !.minPrice = OrElse(f.minPrice, it.constraints.min_price),
        !.minRam = OrElse(f.minRam, it.constraints.min_ram),
        !.minBattery = OrElse(f.minBattery, it.constraints.min_battery),
        !.company = IF f.company # <<>> THEN f.company ELSE firstCompany(it)]

\* dbFilters of fallbackProductSearch: only truthy fields are copied
dbFilters(sf) ==
    [NoFilters EXCEPT
        !.maxPrice = IF Truthy(sf.maxPrice) THEN sf.maxPrice ELSE Undef,
        !.minPrice = IF Truthy(sf.minPrice) THEN sf.minPrice ELSE Undef,
        !.minRam = IF Truthy(sf.minRam) THEN sf.minRam ELSE Undef,
        !.minBattery = IF Truthy(sf.minBattery) THEN sf.minBattery ELSE Undef,
        !.company = sf.company]

fallbackProductSearch(sf, limit) ==
    {[o EXCEPT !.phones = slice(o.phones, limit)] :
        o \in queryPhones(getFilteredPhones(dbFilters(sf)))}

searchProducts(sf, topK) ==
    IF ~hasApiKey \/ ~initialized
    THEN fallbackProductSearch(sf, topK)
    ELSE {Ok(Rows(ids)) : ids \in RemoteMatches} \cup fallbackProductSearch(sf, topK)

----------------------------------------------------------------------------
(* QueryProcessor.processMultiModel *)

modelAliases(m) ==
    CASE m = <<"s24">> -> << <<"galaxy", "s24", "128gb">>, <<"galaxy", "s24", "256gb">>, <<"galaxy", "s24">> >>
      [] m = <<"s24", "ultra">> -> << <<"galaxy", "s24", "ultra", "128gb">>, <<"galaxy", "s24", "ultra", "256gb">>, <<"s24", "ultra">> >>
      [] m = <<"s24+">> -> << <<"galaxy", "s24+", "128gb">>, <<"galaxy", "s24+", "256gb">>, <<"s24+">> >>
      [] m = <<"s23">> -> << <<"galaxy", "s23", "128gb">>, <<"galaxy", "s23", "256gb">>, <<"galaxy", "s23">> >>
      [] m = <<"s23", "ultra">> -> << <<"galaxy", "s23", "ultra">>, <<"s23", "ultra">> >>
      [] m = <<"a55">> -> << <<"galaxy", "a55">>, <<"a55", "5g">> >>
      [] m = <<"a54">> -> << <<"galaxy", "a54">>, <<"a54", "5g">> >>
      [] m = <<"iphone", "15">> -> << <<"iphone", "15">>, <<"iphone", "15", "128gb">> >>
      [] m = <<"iphone", "15", "pro">> -> << <<"iphone", "15", "pro">>, <<"iphone", "15", "pro", "128gb">>, <<"iphone", "15", "pro", "256gb">> >>
      [] m = <<"iphone", "15", "pro", "max">> -> << <<"iphone", "15", "pro", "max">>, <<"iphone", "15", "pro", "max", "128gb">>, <<"iphone", "15", "pro", "max", "256gb">> >>
      [] m = <<"iphone", "14">> -> << <<"iphone", "14">>, <<"iphone", "14", "128gb">> >>
      [] m = <<"pixel", "8">> -> << <<"pixel", "8">>, <<"pixel", "8", "128gb">> >>
      [] m = <<"pixel", "8", "pro">> -> << <<"pixel", "8", "pro">>, <<"pixel", "8", "pro", "128gb">> >>
      [] m = <<"pixel", "8a">> -> << <<"pixel", "8a">>, <<"pixel", "8a", "128gb">> >>
      [] m = <<"oneplus", "12">> -> << <<"oneplus", "12">>, <<"oneplus", "12", "256gb">> >>
      [] m = <<"oneplus", "12r">> -> << <<"oneplus", "12r">>, <<"oneplus", "12r", "128gb">> >>
      [] m = <<"oneplus", "nord">> -> << <<"nord", "ce">>, <<"nord", "3">>, <<"nord", "4">> >>
      [] m = <<"redmi", "note", "13">> -> << <<"redmi", "note", "13">>, <<"redmi", "note", "13", "pro">>, <<"redmi", "note", "13", "pro+">> >>
      [] m = <<"nothing", "phone">> -> << <<"phone", "(1)">>, <<"phone", "(2)">>, <<"phone", "2a">> >>
      [] OTHER -> <<>>

\* companyPatterns, in the order Object.entries yields them
companyPatterns ==
    << [company |-> <<"samsung">>, patterns |-> {<<"galaxy">>, <<"s24">>, <<"s23">>, <<"s22">>, <<"s21">>, <<"a55">>, <<"a54">>, <<"a53">>, <<"m54">>, <<"m53">>, <<"fold">>, <<"flip">>}],
       [company |-> <<"apple">>, patterns |-> {<<"iphone">>}],
       [company |-> <<"google">>, patterns |-> {<<"pixel">>}],
       [company |-> <<"oneplus">>, patterns |-> {<<"oneplus">>, <<"nord">>}],
       [company |-> <<"xiaomi">>, patterns |-> {<<"redmi">>, <<"poco">>, <<"mi">>}],
       [company |-> <<"realme">>, patterns |-> {<<"realme">>}],
       [company |-> <<"oppo">>, patterns |-> {<<"oppo">>, <<"reno">>, <<"find">>}],
       [company |-> <<"vivo">>, patterns |-> {<<"vivo">>, <<"iqoo">>}],
       [company |-> <<"motorola">>, patterns |-> {<<"moto">>, <<"edge">>, <<"razr">>}],
       [company |-> <<"nothing">>, patterns |-> {<<"nothing">>, <<"phone", "(1)">>, <<"phone", "(2)">>}],
       [company |-> <<"honor">>, patterns |-> {<<"honor">>, <<"magic">>}],
       [company |-> <<"huawei">>, patterns |-> {<<"huawei">>, <<"mate">>, <<"p60">>, <<"p50">>}] >>

\* the company of the first entry with a pattern the model name contains, or
\* the empty string for null
inferCompanyFromModel(model) ==
    LET hit(i) == AnyIncluded(toLowerCase(model), companyPatterns[i].patterns)
    IN  IF \E i \in 1..Len(companyPatterns) : hit(i)
        THEN companyPatterns[CHOOSE i \in 1..Len(companyPatterns) :
                                hit(i) /\ \A j \in 1..(i - 1) : ~hit(j)].company
        ELSE <<>>

\* the first non-empty result of a list of results, or no rows
firstNonEmpty(results) ==
    IF \E i \in 1..Len(results) : results[i] # <<>>
    THEN results[CHOOSE i \in 1..Len(results) :
                    results[i] # <<>> /\ \A j \in 1..(i - 1) : results[j] = <<>>]
    ELSE <<>>

\* lowerModel.match(/^s\d+/)
startsWithSDigits(lowerModel) ==
    lowerModel # <<>> /\ lowerModel[1] \in {"s21", "s22", "s23", "s24", "s24+"}

\* a lookup that stops after the alias table
lookupModelAliasOnly(models, companies, i) ==
    LET aliases == modelAliases(toLowerCase(models[i]))
    IN  firstNonEmpty([k \in 1..Len(aliases) |->
            topByRating(LAMBDA p : like(p.model_name, aliases[k]), 1)])

\* the rows pushed for the model at index i
lookupModel(models, companies, i) ==
    LET model == models[i]
        company == IF i <= Len(companies) /\ companies[i] # <<>> THEN companies[i]
                   ELSE IF Len(companies) > 0 /\ companies[1] # <<>> THEN companies[1]
                   ELSE inferCompanyFromModel(model)
        lowerModel == toLowerCase(model)
        aliases == modelAliases(lowerModel)
        r1 == firstNonEmpty([k \in 1..Len(aliases) |->
                  topByRating(LAMBDA p : like(p.model_name, aliases[k]), 1)])
        r2 == IF r1 = <<>> /\ company # <<>>
              THEN topByRating(LAMBDA p : like(p.company_name, company)
                                          /\ like(p.model_name, model), 1)
              ELSE r1
        r3 == IF r2 = <<>>
              THEN topByRating(LAMBDA p : like(p.model_name, model), 1)
              ELSE r2
        r4 == IF r3 = <<>> /\ (company = <<"samsung">> \/ startsWithSDigits(lowerModel))
              THEN topByRating(LAMBDA p : like(p.model_name, <<"galaxy">> \o model), 1)
              ELSE r3
        r5 == IF r4 = <<>> /\ company = <<"apple">> /\ ~includes(lowerModel, <<"iphone">>)
              THEN topByRating(LAMBDA p : like(p.model_name, <<"iphone">> \o model), 1)
              ELSE r4
    IN  r5

RECURSIVE multiModelFrom(_, _, _)
multiModelFrom(models, companies, i) ==
    IF i > Len(models) THEN <<>>
    ELSE lookupModel(models, companies, i) \o multiModelFrom(models, companies, i + 1)

processMultiModel(it) == multiModelFrom(it.model.items, it.company.items, 1)

----------------------------------------------------------------------------
(* QueryProcessor.processMultiBrand *)

brandMappings ==
    << [brand |-> <<"apple">>, aliases |-> << <<"apple">>, <<"iphone">> >>],
       [brand |-> <<"samsung">>, aliases |-> << <<"samsung">>, <<"galaxy">> >>],
       [brand |-> <<"google">>, aliases |-> << <<"google">>, <<"pixel">> >>],
       [brand |-> <<"oneplus">>, aliases |-> << <<"oneplus">>, <<"one", "plus">> >>],
       [brand |-> <<"xiaomi">>, aliases |-> << <<"xiaomi">>, <<"redmi">>, <<"poco">> >>],
       [brand |-> <<"realme">>, aliases |-> << <<"realme">> >>],
       [brand |-> <<"oppo">>, aliases |-> << <<"oppo">>, <<"reno">> >>],
       [brand |-> <<"vivo">>, aliases |-> << <<"vivo">>, <<"iqoo">> >>],
       [brand |-> <<"motorola">>, aliases |-> << <<"motorola">>, <<"moto">> >>],
       [brand |-> <<"nothing">>, aliases |-> << <<"nothing">> >>],
       [brand |-> <<"honor">>, aliases |-> << <<"honor">> >>],
       [brand |-> <<"huawei">>, aliases |-> << <<"huawei">> >>] >>

searchTerms(company) ==
    LET lowerCompany == toLowerCase(company)
        hit(i) == \/ \E k \in 1..Len(brandMappings[i].aliases) :
                        includes(lowerCompany, brandMappings[i].aliases[k])
                  \/ includes(lowerCompany, brandMappings[i].brand)
    IN  IF \E i \in 1..Len(brandMappings) : hit(i)
        THEN LET b == CHOOSE i \in 1..Len(brandMappings) :
                         hit(i) /\ \A j \in 1..(i - 1) : ~hit(j)
             IN  <<brandMappings[b].brand>> \o brandMappings[b].aliases
        ELSE <<lowerCompany>>

BrandLimit == 3

\* the rows of one brand with ORDER BY user_rating DESC alone
brandRowsByRating(table, company) ==
    LET terms == searchTerms(company)
    IN  firstNonEmpty([k \in 1..Len(terms) |->
            slice(SortStable(SelectSeq(table, LAMBDA p : like(p.company_name, terms[k])),
                             RatingDesc), BrandLimit)])

\* the rows of one brand in a table: the first search term with rows, best three
brandRowsIn(table, company) ==
    LET terms == searchTerms(company)
    IN  firstNonEmpty([k \in 1..Len(terms) |->
            slice(SortStable(SelectSeq(table, LAMBDA p : like(p.company_name, terms[k])),
                             RatingDescPriceAsc), BrandLimit)])

brandRows(company) == brandRowsIn(Catalog, company)

\* push the rows whose id is not yet in acc
RECURSIVE addUnique(_, _)
addUnique(acc, rows) ==
    IF rows = <<>> THEN acc
    ELSE addUnique(IF \E k \in 1..Len(acc) : acc[k].id = Head(rows).id
                   THEN acc ELSE Append(acc, Head(rows)),
                   Tail(rows))

RECURSIVE multiBrandIn(_, _, _, _)
multiBrandIn(table, companies, i, acc) ==
    IF i > Len(companies) THEN acc
    ELSE multiBrandIn(table, companies, i + 1, addUnique(acc, brandRowsIn(table, companies[i])))

multiBrandFrom(companies, i, acc) == multiBrandIn(Catalog, companies, i, acc)

processMultiBrand(it) == multiBrandFrom(it.company.items, 1, <<>>)

----------------------------------------------------------------------------
(* QueryProcessor.applyCorrections *)

\* similar[0].score > 0.7, scores in hundredths
AcceptScore == 70

\* metadata.value of the best match for a token: the stored name of the first
\* catalog row that contains the token, the token itself when none does
nearestCompany(token) ==
    LET rows == SelectSeq(Catalog, LAMBDA p : like(p.company_name, token))
    IN  IF rows = <<>> THEN token ELSE rows[1].company_name

nearestModel(token) ==
    LET rows == SelectSeq(Catalog, LAMBDA p : like(p.model_name, token))
    IN  IF rows = <<>> THEN token ELSE rows[1].model_name

\* scores findSimilar may report for its best match; 0 stands for no match
SimilarScores == {0, AcceptScore, 90}

accepts(score) == score > AcceptScore

\* the corrected list of companies when findSimilar reports score sc[i] for
\* token i
companiesWith(fld, sc) ==
    ListField([i \in 1..Len(fld.items) |->
        IF accepts(sc[i]) THEN nearestCompany(fld.items[i]) ELSE fld.items[i]])

modelsWith(fld, sc) ==
    ListField([i \in 1..Len(fld.items) |->
        IF accepts(sc[i]) THEN nearestModel(fld.items[i]) ELSE fld.items[i]])

\* the corrected lists, for every choice of the score of each token
correctedCompanies(fld) ==
    IF fld.kind # "list" THEN {fld}
    ELSE {companiesWith(fld, sc) : sc \in [1..Len(fld.items) -> SimilarScores]}

correctedModels(fld) ==
    IF fld.kind # "list" THEN {fld}
    ELSE {modelsWith(fld, sc) : sc \in [1..Len(fld.items) -> SimilarScores]}

\* number of findSimilar calls applyCorrections makes
tokenCount(it) == FieldLength(it.company) + FieldLength(it.model)

\* VectorClient.initialized after the initIndex of the first findSimilar
initAfter(it) ==
    IF tokenCount(it) = 0 \/ initialized THEN {initialized}
    ELSE IF hasApiKey THEN {TRUE, FALSE} ELSE {FALSE}

Corrected(it, init) == [ok |-> TRUE, intent |-> it, err |-> <<>>, init |-> init]
CorrectionFailed(msg, init) == [ok |-> FALSE, intent |-> DefaultIntent, err |-> msg, init |-> init]

\* applyCorrections: the corrected copy of the intent, or the error of a
\* catalog call of fallbackSimilar, which nothing catches
applyCorrections(it) ==
    LET copies == {[it EXCEPT !.kind = "object", !.company = c, !.model = m] :
                      c \in correctedCompanies(it.company),
                      m \in correctedModels(it.model)}
    IN  IF tokenCount(it) = 0 THEN {Corrected(c, initialized) : c \in copies}
        ELSE UNION {
               (IF init \/ dbConfigured THEN {Corrected(c, init) : c \in copies} ELSE {})
               \cup {CorrectionFailed(DbError, init)} : init \in initAfter(it)}

----------------------------------------------------------------------------
(* QueryProcessor.process *)

NoResponse ==
    [message |-> <<>>, hasPhones |-> FALSE, phones |-> <<>>, hasError |-> FALSE,
     error |-> <<>>, hasWarning |-> FALSE, warning |-> <<>>]

ResponseLimit == 5

Reply(message) == [NoResponse EXCEPT !.message = message]

ReplyPhones(message, phs) ==
    [NoResponse EXCEPT !.message = message, !.hasPhones = TRUE, !.phones = phs]

RECURSIVE phoneLines(_)
phoneLines(phs) ==
    IF phs = <<>> THEN <<>>
    ELSE Head(phs).company_name \o Head(phs).model_name \o phoneLines(Tail(phs))

generateFallbackMessage(warningMessage, phs) ==
    warningMessage \o phoneLines(slice(phs, ResponseLimit))
        \o <<"Click on any phone card below for full specifications.">>

\* the catch block of process without its inner try: an error of the keyword
\* fallback escapes
CatchBlockNoInnerTry(msg, fb) ==
    LET errorDetails == classifyError(msg)
    IN  IF ~fb.ok THEN [threw |-> TRUE, resp |-> NoResponse]
        ELSE IF Len(fb.phones) > 0
        THEN [threw |-> FALSE,
              resp |-> [ReplyPhones(generateFallbackMessage(errorDetails.userMessage, fb.phones),
                                    slice(fb.phones, ResponseLimit))
                          EXCEPT !.hasWarning = TRUE, !.warning = errorDetails.userMessage]]
        ELSE [threw |-> FALSE,
              resp |-> [Reply(errorDetails.userMessage)
                          EXCEPT !.hasError = TRUE, !.error = errorDetails.technicalMessage]]

\* the catch block of process with an error field on every response
CatchBlockAlwaysError(msg, fb) ==
    LET errorDetails == classifyError(msg)
    IN  IF fb.ok /\ Len(fb.phones) > 0
        THEN [threw |-> FALSE,
              resp |-> [ReplyPhones(generateFallbackMessage(errorDetails.userMessage, fb.phones),
                                    slice(fb.phones, ResponseLimit))
                          EXCEPT !.hasWarning = TRUE, !.warning = errorDetails.userMessage,
                                 !.hasError = TRUE, !.error = errorDetails.technicalMessage]]
        ELSE [threw |-> FALSE,
              resp |-> [Reply(errorDetails.userMessage)
                          EXCEPT !.hasError = TRUE, !.error = errorDetails.technicalMessage]]

\* the catch block of process: msg is the message of the caught error, fb the
\* outcome of getFallbackResults
CatchBlock(msg, fb) ==
    LET errorDetails == classifyError(msg)
    IN  IF fb.ok /\ Len(fb.phones) > 0
        THEN [threw |-> FALSE,
              resp |-> [ReplyPhones(generateFallbackMessage(errorDetails.userMessage, fb.phones),
                                    slice(fb.phones, ResponseLimit))
                          EXCEPT !.hasWarning = TRUE, !.warning = errorDetails.userMessage]]
        ELSE [threw |-> FALSE,
              resp |-> [Reply(errorDetails.userMessage)
                          EXCEPT !.hasError = TRUE, !.error = errorDetails.technicalMessage]]

\* process without its pre-check: a follow-up is recognised only at step 5,
\* after classification
followUpShortCircuitOff(query, prev) == FALSE

\* the pre-check of process takes the follow-up branch
\* the pre-check taken only for a 'best' follow-up
followUpShortCircuitBestOnly(query, prev) ==
    isFollowUpQuery(query) /\ isBestPhoneQuery(query) /\ Len(prev) > 0

followUpShortCircuit(query, prev) == isFollowUpQuery(query) /\ Len(prev) > 0

\* step 5 with the multi-brand path asking for three brands
executePathThreeBrands(it, query, prev) ==
    IF it.comparison_type = "multi" /\ FieldLength(it.model) > 0 THEN "multimodel"
    ELSE IF it.comparison_type = "multi" /\ FieldLength(it.company) >= 3 THEN "multibrand"
    ELSE IF isFollowUpQuery(query) /\ Len(prev) > 0 THEN "history"
    ELSE "single"

\* step 5 of process: the retrieval path of a corrected intent
executePath(it, query, prev) ==
    IF it.comparison_type = "multi" /\ FieldLength(it.model) > 0 THEN "multimodel"
    ELSE IF it.comparison_type = "multi" /\ FieldLength(it.company) >= 2 THEN "multibrand"
    ELSE IF isFollowUpQuery(query) /\ Len(prev) > 0 THEN "history"
    ELSE "single"

\* processSingleQuery: where control goes after a strategy ended with status
\* "nonempty", "empty" or "threw"
afterSemanticUncaught(status) ==
    IF status = "nonempty" THEN "summarize" ELSE IF status = "threw" THEN "catch" ELSE "sql"
afterSemantic(status) == IF status = "nonempty" THEN "summarize" ELSE "sql"
afterSql(status) == IF status = "nonempty" THEN "summarize" ELSE "filtered"

statusOf(o) == IF ~o.ok THEN "threw" ELSE IF o.phones = <<>> THEN "empty" ELSE "nonempty"

----------------------------------------------------------------------------
(* Requests *)

\* longest history a caller passes
MaxHistory == 2

\* most rows a generated predicate returns
MaxSqlRows == 6

Queries ==
    { <<"tell", "me", "more">>,
      <<"Which", "is", "Best">>,
      <<"best", "samsung", "phone", "under", "20k">>,
      <<"ignore", "your", "instructions">> }

CallerFilters ==
    { NoFilters, [NoFilters EXCEPT !.maxPrice = 30000, !.company = <<"Samsung">>] }

HistoryTurns ==
    { Turn("user", FALSE, <<>>),
      Turn("assistant", TRUE, <<>>),
      Turn("assistant", TRUE, Rows(<<1, 3>>)),
      Turn("assistant", TRUE, Rows(<<7, 6, 1, 2, 4, 3>>)) }

Histories == UNION {[1..n -> HistoryTurns] : n \in 0..MaxHistory}

\* documents the generation service returns to the parseIntent of a request
ProcessDocs ==
    { Intent("reject", UndefField, UndefField, NoConstraints, "single"),
      Intent("general_qa", UndefField, UndefField, NoConstraints, "single"),
      Intent("query", UndefField, UndefField, NoConstraints, "single"),
      Intent("query", ListField(<< <<"Samsung">> >>), UndefField,
             [NoConstraints EXCEPT !.max_price = 20000], "single"),
      Intent("query", UndefField, ListField(<< <<"S24">>, <<"s24">> >>),
             NoConstraints, "multi"),
      Intent("query", UndefField, ListField(<< <<"iphone", "15">>, <<"nord">>, <<"x99">> >>),
             NoConstraints, "multi"),
      Intent("query", ListField(<< <<"apple">>, <<"samsung">> >>), UndefField,
             NoConstraints, "multi"),
      NonObject("number") }

ProcessTexts == {<<Fence, JsonWord, DocTok(d), Fence>> : d \in ProcessDocs} \cup {<<Junk>>}

\* rows a generated predicate may select
SqlResults == { [i \in 1..n |-> Row(i)] : n \in {0, 1, MaxSqlRows} }

NoStrategies == [semantic |-> "none", sql |-> "none", filtered |-> "none"]
NoFallback == [status |-> "none", phones |-> <<>>]

InitProcess ==
    /\ pc = "idle"
    /\ userQuery = <<>>
    /\ filters = NoFilters
    /\ history = <<>>
    /\ filters0 = NoFilters
    /\ history0 = <<>>
    /\ previousPhones = <<>>
    /\ prevTurn = 0
    /\ intent = DefaultIntent
    /\ mergedFilters = NoFilters
    /\ phones = <<>>
    /\ errorMessage = <<>>
    /\ response = NoResponse
    /\ outcome = "none"
    /\ path = "none"
    /\ calls = <<>>
    /\ strat = NoStrategies
    /\ fallbackPhones = NoFallback
    /\ initialized = FALSE

IdleMerge == mf = NoFilters /\ mc = DefaultIntent /\ mres = MergeIdle

ParseIdle == [done |-> FALSE, intent |-> DefaultIntent]

IdleParse == ptext = <<>> /\ pres = ParseIdle

NoCall == [op |-> "none"]

NoResult == [done |-> FALSE]

IdleCall == call = NoCall /\ result = NoResult

Init ==
    /\ InitProcess
    /\ hasApiKey \in BOOLEAN
    /\ dbConfigured \in BOOLEAN
    /\ IdleMerge
    /\ IdleParse
    /\ IdleCall

envVars == <<hasApiKey, dbConfigured, mf, mc, mres, ptext, pres, call, result>>
callerVars == <<userQuery, filters0, history0>>

\* return r from the branch named p
Return(r, p) ==
    /\ response' = r
    /\ outcome' = "returned"
    /\ path' = p
    /\ pc' = "done"
    /\ UNCHANGED errorMessage

\* an error with message msg reaches the catch block of process
Caught(msg) ==
    /\ pc' = "catch"
    /\ errorMessage' = msg
    /\ UNCHANGED <<response, outcome, path>>

\* control moves on inside the try block
Goto(label) ==
    /\ pc' = label
    /\ UNCHANGED <<response, outcome, path, errorMessage>>

\* a caller invokes process(userQuery, filters, history)
Begin ==
    /\ pc = "idle"
    /\ \E q \in Queries, f \in CallerFilters, h \in Histories :
          /\ userQuery' = q
          /\ filters' = f
          /\ filters0' = f
          /\ history' = h
          /\ history0' = h
    /\ pc' = "start"
    /\ UNCHANGED <<previousPhones, prevTurn, intent, mergedFilters, phones, errorMessage,
                   response, outcome, path, calls, strat, fallbackPhones, initialized>>
    /\ UNCHANGED envVars

\* lines 29-54: the follow-up pre-check and its summary
FollowUp ==
    /\ pc = "start"
    /\ followUpShortCircuit(userQuery, getPhonesFromHistory(history))
    /\ LET prev == getPhonesFromHistory(history)
           turn == LastCarryingTurn(history)
           best == isBestPhoneQuery(userQuery) /\ Len(prev) > 1
           sorted == sortedPhones(prev)
           shown == IF best THEN <<sorted[1]>> ELSE prev
       IN  /\ previousPhones' = prev
           /\ prevTurn' = turn
           /\ history' = IF best /\ SortTarget("history", "copy") = "history"
                         THEN [history EXCEPT ![turn].phones = sorted]
                         ELSE history
           /\ calls' = Append(calls, "summarize")
           /\ \E o \in summarize(shown) :
                 IF o.ok
                 THEN Return(ReplyPhones(o.text, IF best THEN shown
                                                 ELSE slice(prev, ResponseLimit)),
                             "followup")
                 ELSE Caught(o.text)
    /\ UNCHANGED <<filters, intent, mergedFilters, phones, strat, fallbackPhones, initialized>>
    /\ UNCHANGED callerVars
    /\ UNCHANGED envVars

\* lines 56-58: intent classification
Classify ==
    /\ pc = "start"
    /\ ~followUpShortCircuit(userQuery, getPhonesFromHistory(history))
    /\ previousPhones' = getPhonesFromHistory(history)
    /\ prevTurn' = LastCarryingTurn(history)
    /\ calls' = Append(calls, "parseIntent")
    /\ \E o \in {[ok |-> TRUE, text |-> t, err |-> <<>>] : t \in ProcessTexts}
                 \cup {[ok |-> FALSE, text |-> <<>>, err |-> e] : e \in ServiceErrors} :
          IF o.ok
          THEN intent' = parseIntent(o.text) /\ Goto("classified")
          ELSE UNCHANGED intent /\ Caught(o.err)
    /\ UNCHANGED <<filters, history, mergedFilters, phones, strat, fallbackPhones, initialized>>
    /\ UNCHANGED callerVars
    /\ UNCHANGED envVars

\* lines 61-75: a rejected query
Reject ==
    /\ pc = "classified"
    /\ intent.task = "reject"
    /\ IF Len(previousPhones) > 0
       THEN /\ calls' = Append(calls, "summarize")
            /\ \E o \in summarize(previousPhones) :
                  IF o.ok
                  THEN Return(ReplyPhones(o.text, slice(previousPhones, ResponseLimit)),
                              "reject_history")
                  ELSE Caught(o.text)
       ELSE /\ UNCHANGED calls
            /\ Return(Reply(RefusalMessage), "reject")
    /\ UNCHANGED <<filters, history, previousPhones, prevTurn, intent, mergedFilters, phones,
                   strat, fallbackPhones, initialized>>
    /\ UNCHANGED callerVars
    /\ UNCHANGED envVars

\* lines 77-82: a general question
GeneralQA ==
    /\ pc = "classified"
    /\ intent.task = "general_qa"
    /\ calls' = Append(calls, "answerGeneral")
    /\ \E o \in generateContent :
          IF o.ok THEN Return(Reply(o.text), "general") ELSE Caught(o.text)
    /\ UNCHANGED <<filters, history, previousPhones, prevTurn, intent, mergedFilters, phones,
                   strat, fallbackPhones, initialized>>
    /\ UNCHANGED callerVars
    /\ UNCHANGED envVars

\* lines 84-107: typo correction, filter merge and the choice of the path
Correct ==
    /\ pc = "classified"
    /\ intent.task \notin {"reject", "general_qa"}
    /\ \E o \in applyCorrections(intent) :
          /\ initialized' = o.init
          /\ IF o.ok
             THEN LET target == MergeTarget("filters", "merged")
                      merged == mergeFilters(filters, o.intent)
                      next == executePath(o.intent, userQuery, previousPhones)
                  IN  /\ intent' = o.intent
                      /\ calls' = calls \o <<"applyCorrections", "mergeFilters">>
                      /\ mergedFilters' = merged
                      /\ filters' = IF target = "filters" THEN merged ELSE filters
                      /\ phones' = IF next = "history" THEN previousPhones ELSE phones
                      /\ Goto(CASE next = "multimodel" -> "multimodel"
                                [] next = "multibrand" -> "multibrand"
                                [] next = "history" -> "summarize"
                                [] next = "single" -> "semantic")
             ELSE /\ calls' = Append(calls, "applyCorrections")
                  /\ UNCHANGED <<intent, mergedFilters, filters, phones>>
                  /\ Caught(o.err)
    /\ UNCHANGED <<history, previousPhones, prevTurn, strat, fallbackPhones>>
    /\ UNCHANGED callerVars
    /\ UNCHANGED envVars

\* line 97: multi-model comparison
MultiModel ==
    /\ pc = "multimodel"
    /\ calls' = Append(calls, "processMultiModel")
    /\ \E o \in queryPhones(processMultiModel(intent)) :
          IF o.ok THEN phones' = o.phones /\ Goto("summarize")
          ELSE UNCHANGED phones /\ Caught(o.err)
    /\ UNCHANGED <<filters, history, previousPhones, prevTurn, intent, mergedFilters,
                   strat, fallbackPhones, initialized>>
    /\ UNCHANGED callerVars
    /\ UNCHANGED envVars

\* line 100: multi-brand comparison
MultiBrand ==
    /\ pc = "multibrand"
    /\ calls' = Append(calls, "processMultiBrand")
    /\ \E o \in queryPhones(processMultiBrand(intent)) :
          IF o.ok THEN phones' = o.phones /\ Goto("summarize")
          ELSE UNCHANGED phones /\ Caught(o.err)
    /\ UNCHANGED <<filters, history, previousPhones, prevTurn, intent, mergedFilters,
                   strat, fallbackPhones, initialized>>
    /\ UNCHANGED callerVars
    /\ UNCHANGED envVars

\* processSingleQuery step 1: semantic retrieval
Semantic ==
    /\ pc = "semantic"
    /\ calls' = Append(calls, "semantic")
    /\ \E o \in searchProducts(semanticFilters(mergedFilters, intent), TopK) :
          /\ strat' = [strat EXCEPT !.semantic = statusOf(o)]
          /\ phones' = IF statusOf(o) = "nonempty" THEN o.phones ELSE phones
          /\ IF afterSemantic(statusOf(o)) = "catch"
             THEN Caught(o.err)
             ELSE Goto(afterSemantic(statusOf(o)))
    /\ UNCHANGED <<filters, history, previousPhones, prevTurn, intent, mergedFilters,
                   fallbackPhones, initialized>>
    /\ UNCHANGED callerVars
    /\ UNCHANGED envVars

\* generateSQL: an error of the service, a text that is no SELECT, or a SELECT
generateSQL == {"raises", "not-select", "select"}

\* processSingleQuery step 2: generated-predicate retrieval
GeneratedPredicate ==
    /\ pc = "sql"
    /\ calls' = Append(calls, "generated-predicate")
    /\ \E sql \in generateSQL :
          \E o \in IF sql = "select"
                   THEN UNION {queryPhones(rows) : rows \in SqlResults}
                   ELSE {Throw(<<"Invalid", "SQL">>)} :
             /\ strat' = [strat EXCEPT !.sql = statusOf(o)]
             /\ phones' = IF statusOf(o) = "nonempty" THEN o.phones ELSE phones
             /\ Goto(afterSql(statusOf(o)))
    /\ UNCHANGED <<filters, history, previousPhones, prevTurn, intent, mergedFilters,
                   fallbackPhones, initialized>>
    /\ UNCHANGED callerVars
    /\ UNCHANGED envVars

\* processSingleQuery step 3: filtered retrieval
Filtered ==
    /\ pc = "filtered"
    /\ calls' = Append(calls, "filtered")
    /\ \E o \in queryPhones(getFilteredPhones(mergedFilters)) :
          /\ strat' = [strat EXCEPT !.filtered = statusOf(o)]
          /\ IF o.ok THEN phones' = o.phones /\ Goto("summarize")
             ELSE UNCHANGED phones /\ Caught(o.err)
    /\ UNCHANGED <<filters, history, previousPhones, prevTurn, intent, mergedFilters,
                   fallbackPhones, initialized>>
    /\ UNCHANGED callerVars
    /\ UNCHANGED envVars

\* lines 109-116: the summary and the response of the main path
Summarize ==
    /\ pc = "summarize"
    /\ calls' = Append(calls, "summarize")
    /\ \E o \in summarize(phones) :
          IF o.ok THEN Return(ReplyPhones(o.text, slice(phones, ResponseLimit)), "main")
          ELSE Caught(o.text)
    /\ UNCHANGED <<filters, history, previousPhones, prevTurn, intent, mergedFilters, phones,
                   strat, fallbackPhones, initialized>>
    /\ UNCHANGED callerVars
    /\ UNCHANGED envVars

\* lines 117-146: the catch block and the keyword fallback
Recover ==
    /\ pc = "catch"
    /\ calls' = Append(calls, "getFallbackResults")
    /\ \E fb \in getFallbackResults(userQuery) :
          LET r == CatchBlock(errorMessage, fb)
          IN  /\ fallbackPhones' = [status |-> IF fb.ok THEN "ok" ELSE "threw",
                                    phones |-> fb.phones]
              /\ response' = r.resp
              /\ outcome' = IF r.threw THEN "threw" ELSE "returned"
              /\ path' = IF r.threw THEN "none"
                         ELSE IF r.resp.hasPhones THEN "fallback" ELSE "error"
    /\ pc' = "done"
    /\ UNCHANGED <<filters, history, previousPhones, prevTurn, intent, mergedFilters, phones,
                   errorMessage, strat, initialized>>
    /\ UNCHANGED callerVars
    /\ UNCHANGED envVars

\* the caller has the result; the next request may begin
Finish ==
    /\ pc = "done"
    /\ pc' = "idle"
    /\ userQuery' = <<>>
    /\ filters' = NoFilters
    /\ history' = <<>>
    /\ filters0' = NoFilters
    /\ history0' = <<>>
    /\ previousPhones' = <<>>
    /\ prevTurn' = 0
    /\ intent' = DefaultIntent
    /\ mergedFilters' = NoFilters
    /\ phones' = <<>>
    /\ errorMessage' = <<>>
    /\ response' = NoResponse
    /\ outcome' = "none"
    /\ path' = "none"
    /\ calls' = <<>>
    /\ strat' = NoStrategies
    /\ fallbackPhones' = NoFallback
    /\ UNCHANGED initialized
    /\ UNCHANGED envVars

Step ==
    \/ FollowUp
    \/ Classify
    \/ Reject
    \/ GeneralQA
    \/ Correct
    \/ MultiModel
    \/ MultiBrand
    \/ Semantic
    \/ GeneratedPredicate
    \/ Filtered
    \/ Summarize
    \/ Recover

Next == Begin \/ Step \/ Finish

Spec == Init /\ [][Next]_vars

----------------------------------------------------------------------------
(* mergeFilters and parseIntent on their own *)

\* the request is idle while a function is exercised on its own
ProcessIdle ==
    /\ InitProcess
    /\ hasApiKey = TRUE
    /\ dbConfigured = TRUE

MergeNext == MergeCall /\ UNCHANGED procVars /\ UNCHANGED parseVars /\ UNCHANGED callVars

MergeInit == ProcessIdle /\ InitMerge /\ IdleParse /\ IdleCall

SpecMerge == MergeInit /\ [][MergeNext]_vars

\* longest completion text handed to parseIntent, in tokens
MaxText == 4

\* JSON documents a completion may hold
ParseDocs ==
    { Intent("query", ListField(<< <<"Samsung">> >>), UndefField,
             [NoConstraints EXCEPT !.max_price = 20000], "single"),
      Intent("reject", UndefField, UndefField, NoConstraints, "single"),
      Intent("banana", UndefField, UndefField, NoConstraints, "single"),
      Intent("query", ScalarField, UndefField, NoConstraints, "single"),
      NonObject("number"),
      NonObject("string"),
      NonObject("null") }

TextTokens == {Ws, Fence, JsonWord, Junk} \cup {DocTok(d) : d \in ParseDocs}

Texts == UNION {[1..n -> TextTokens] : n \in 0..MaxText}

InitParse == ptext \in Texts /\ pres = ParseIdle

\* parseIntent receives ptext from generateContent
ParseCall ==
    /\ ~pres.done
    /\ pres' = [done |-> TRUE, intent |-> parseIntent(ptext)]
    /\ UNCHANGED ptext

ParseNext == ParseCall /\ UNCHANGED procVars /\ UNCHANGED mergeVars /\ UNCHANGED callVars

ParseInit == ProcessIdle /\ IdleMerge /\ InitParse /\ IdleCall

SpecParse == ParseInit /\ [][ParseNext]_vars

----------------------------------------------------------------------------
(* Properties of process *)

Called(op) == \E i \in 1..Len(calls) : calls[i] = op

LastCall == IF calls = <<>> THEN "none" ELSE calls[Len(calls)]

\* position of pc in the order of the steps of a request
Rank(p) ==
    CASE p = "idle" -> 0
      [] p = "start" -> 1
      [] p = "classified" -> 2
      [] p \in {"multimodel", "multibrand", "semantic"} -> 3
      [] p = "sql" -> 4
      [] p = "filtered" -> 5
      [] p = "summarize" -> 6
      [] p = "catch" -> 7
      [] p = "done" -> 8

\* C1: for every query, filters and history and every combination of failures
\* of the generation service, the similarity index and the catalog accessor,
\* process never throws to its caller; every step of a request in flight moves
\* it forward, so it ends after at most eight steps; and it ends by returning a
\* response whose message is a non-empty string.
C1_ProcessAlwaysReturns ==
    [][/\ outcome' # "threw"
       /\ pc \notin {"idle", "done"} => Rank(pc') > Rank(pc)
       /\ pc' = "done" =>
             /\ outcome' = "returned"
             /\ response'.message \in Seq(STRING)
             /\ response'.message # <<>>]_vars

\* C1 witness: the generation service and the catalog accessor both failed,
\* the keyword fallback itself raised, and process still returned.
C1_Witness ==
    /\ pc = "done"
    /\ outcome = "returned"
    /\ fallbackPhones.status = "threw"
    /\ Called("parseIntent")

NoSharedBrandModel(phs) ==
    \A i, j \in 1..Len(phs) :
        i # j => ~(phs[i].company_name = phs[j].company_name
                   /\ phs[i].model_name = phs[j].model_name)

\* C2: in every response process returns, on every path, the phones list when
\* present has at most 5 entries and no two entries share the same
\* (brand, model) pair.
C2_PhonesCappedAndDistinct ==
    (pc = "done" /\ response.hasPhones) =>
        /\ Len(response.phones) <= ResponseLimit
        /\ NoSharedBrandModel(response.phones)

MainPathFailed == Called("getFallbackResults")

FallbackYielded == fallbackPhones.status = "ok" /\ Len(fallbackPhones.phones) > 0

\* C3: a response carries an error only if the main path failed and the
\* keyword fallback yielded no phone; when the main path failed and the
\* fallback yielded a phone, the response carries those phones and a warning
\* and no error; a response built without a failure has neither.
C3_ErrorOnlyWhenBothFailed ==
    pc = "done" =>
        /\ response.hasError => MainPathFailed /\ ~FallbackYielded
        /\ (MainPathFailed /\ FallbackYielded) =>
              /\ response.hasPhones
              /\ response.phones = slice(fallbackPhones.phones, ResponseLimit)
              /\ response.hasWarning
              /\ ~response.hasError
        /\ ~MainPathFailed => ~response.hasError /\ ~response.hasWarning

\* C3 witness: the main path failed and the keyword fallback found phones.
C3_Witness ==
    /\ pc = "done"
    /\ MainPathFailed
    /\ FallbackYielded
    /\ response.hasWarning

ClassifiesOrRetrieves ==
    {"parseIntent", "applyCorrections", "mergeFilters", "processMultiModel",
     "processMultiBrand", "semantic", "generated-predicate", "filtered"}

\* C4: when the query holds a follow-up phrase and the history carries a
\* phone, the request never calls parseIntent, applyCorrections or one of the
\* retrieval strategies (semantic, generated-predicate, filtered, multi-model,
\* multi-brand).
C4_FollowUpSkipsClassification ==
    (pc \notin {"idle", "start"}
        /\ isFollowUpQuery(userQuery)
        /\ \E i \in 1..Len(history0) : CarriesPhones(history0[i]))
    => \A i \in 1..Len(calls) : calls[i] \notin ClassifiesOrRetrieves

\* C4 witness: a follow-up over a history with phones has been answered.
C4_Witness ==
    /\ pc = "done"
    /\ isFollowUpQuery(userQuery)
    /\ \E i \in 1..Len(history0) : CarriesPhones(history0[i])
    /\ response.hasPhones
    /\ calls = <<"summarize">>

\* C5: on the follow-up path the returned phones are the phones of the most
\* recent turn that carries any, in their order, capped at 5; when the query
\* also holds a 'best' phrase and that turn carries more than one phone, one
\* phone of that turn is returned and no phone of the turn is rated higher.
C5_FollowUpPhones ==
    path = "followup" =>
        LET turn == history0[LastCarryingTurn(history0)].phones
        IN  IF isBestPhoneQuery(userQuery) /\ Len(turn) > 1
            THEN /\ Len(response.phones) = 1
                 /\ \E i \in 1..Len(turn) : turn[i] = response.phones[1]
                 /\ \A i \in 1..Len(turn) :
                        turn[i].user_rating <= response.phones[1].user_rating
            ELSE response.phones = slice(turn, ResponseLimit)

\* C5 witness: a 'best' follow-up answered with the top-rated phone of a turn
\* whose first phone is not the top-rated one.
C5_Witness ==
    /\ path = "followup"
    /\ isBestPhoneQuery(userQuery)
    /\ Len(response.phones) = 1
    /\ response.phones[1] # history0[LastCarryingTurn(history0)].phones[1]

\* C6: whenever classification yields task = reject, process returns the
\* fixed refusal message with no phones and runs neither retrieval nor summary
\* generation, whatever the history holds.
C6_RejectAlwaysRefuses ==
    (pc = "done" /\ Called("parseIntent") /\ intent.task = "reject") =>
        /\ response = Reply(RefusalMessage)
        /\ calls = <<"parseIntent">>

\* C8: the strategies of processSingleQuery run in the order semantic,
\* generated-predicate, filtered; a later one runs only when every earlier one
\* returned nothing or threw; after a non-empty result no later one runs and
\* that result is the one kept; an error of the first two never reaches the
\* catch block of process.
C8_StrategiesInOrder ==
    /\ strat.sql # "none" => strat.semantic \in {"empty", "threw"}
    /\ strat.filtered # "none" =>
          strat.semantic \in {"empty", "threw"} /\ strat.sql \in {"empty", "threw"}
    /\ SelectSeq(calls, LAMBDA c : c \in {"semantic", "generated-predicate", "filtered"})
          \in { <<>>, <<"semantic">>, <<"semantic", "generated-predicate">>,
                <<"semantic", "generated-predicate", "filtered">> }
    /\ (strat.semantic = "nonempty" \/ strat.sql = "nonempty" \/ strat.filtered = "nonempty")
          => phones # <<>> /\ pc \in {"summarize", "catch", "done"}
    /\ pc = "catch" => LastCall \notin {"semantic", "generated-predicate"}

\* C8 witness: semantic retrieval threw, the generated predicate failed, and
\* filtered retrieval ran third.
C8_Witness ==
    /\ strat.semantic = "threw"
    /\ strat.sql \in {"empty", "threw"}
    /\ strat.filtered # "none"

\* C10: from the call to the return of process, on every path, the caller's
\* filters object and history (each turn's phones and their order) keep the
\* values they had when process was called.
C10_ArgumentsUnchanged ==
    pc # "idle" => filters = filters0 /\ history = history0

\* C10 witness: a 'best' follow-up whose sort reordered the phones, returned.
C10_Witness ==
    /\ pc = "done"
    /\ path = "followup"
    /\ isBestPhoneQuery(userQuery)
    /\ sortedPhones(previousPhones) # previousPhones

----------------------------------------------------------------------------
(* Properties of parseIntent and mergeFilters *)

\* a document that is a JSON intent: an object whose entity lists, where
\* present, are arrays of strings
IsIntent(d) ==
    /\ d.kind = "object"
    /\ d.company.kind \in {"undef", "list"}
    /\ d.model.kind \in {"undef", "list"}

ParsesAsIntent(text) ==
    jsonParses(stripFences(text)) /\ IsIntent(jsonValue(stripFences(text)))

\* C7: for every text of the generation service that is not parseable as a
\* JSON intent after code-fence stripping, parseIntent returns the default
\* intent.
C7_UnparseableGivesDefault ==
    (pres.done /\ ~ParsesAsIntent(ptext)) => pres.intent = DefaultIntent

Bounds ==
    { <<mf.minPrice, mc.constraints.min_price, mres.merged.minPrice,
        mf.maxPrice, mc.constraints.max_price, mres.merged.maxPrice>>,
      <<mf.minRam, mc.constraints.min_ram, mres.merged.minRam,
        mf.maxRam, mc.constraints.max_ram, mres.merged.maxRam>>,
      <<mf.minBattery, mc.constraints.min_battery, mres.merged.minBattery,
        mf.maxBattery, mc.constraints.max_battery, mres.merged.maxBattery>>,
      <<mf.minCamera, mc.constraints.min_camera, mres.merged.minCamera,
        mf.maxCamera, mc.constraints.max_camera, mres.merged.maxCamera>>,
      <<mf.minStorage, mc.constraints.min_storage, mres.merged.minStorage,
        mf.maxStorage, mc.constraints.max_storage, mres.merged.maxStorage>> }

\* a merged min-bound lo against the min-bounds a and b that were supplied; an
\* absent min-bound admits every value from 0 up
TightMin(a, b, lo) ==
    /\ a # Undef => Max(lo, 0) >= a
    /\ b # Undef => Max(lo, 0) >= b
    /\ (a # Undef /\ b # Undef) => lo = Max(a, b)

\* a merged max-bound hi against the max-bounds a and b that were supplied
TightMax(a, b, hi) ==
    /\ a # Undef => hi # Undef /\ hi <= a
    /\ b # Undef => hi # Undef /\ hi <= b
    /\ (a # Undef /\ b # Undef) => hi = Min(a, b)

\* C9: for all filters f and constraints c over non-negative integers, 0
\* included, mergeFilters never widens a supplied bound: each merged min-bound
\* is >= every supplied min-bound, each merged max-bound <= every supplied
\* max-bound, and with both supplied the result is the max of the min-bounds
\* and the min of the max-bounds.
C9_MergeNeverWidens ==
    mres.done =>
        \A b \in Bounds : TightMin(b[1], b[2], b[3]) /\ TightMax(b[4], b[5], b[6])

----------------------------------------------------------------------------
(* getFilteredPhones applied to bounded tables and filters *)

\* most rows of a drawn table
MaxCatalog == 2

\* a row whose five numeric columns all hold v
SmallRow(id, brand, rating, v) == Phone(id, <<brand>>, <<"M">>, rating, v, v, v, v, v)

SmallRows ==
    {SmallRow(0, "Apple", 45, v) : v \in 0..MaxBound}
        \cup {SmallRow(0, "Samsung", 40, v) : v \in 0..MaxBound}

SmallTables == UNION {[1..n -> SmallRows] : n \in 0..MaxCatalog}

\* a table with more rows than the LIMIT of the query
BigTable ==
    [i \in 1..(FilteredLimit + 2) |->
        SmallRow(i, IF i % 2 = 0 THEN "Apple" ELSE "Samsung",
                 IF i % 2 = 0 THEN 45 ELSE 40, i % 3)]

SmallFilters ==
    {FiltersOn(d, lo, hi, co) :
        d \in Dims, lo \in BoundVals, hi \in BoundVals, co \in {<<>>, <<"APPLE">>}}

FilteredCalls ==
    {[op |-> "getFilteredPhones", table |-> t, filters |-> f] :
        t \in SmallTables, f \in SmallFilters}
    \cup {[op |-> "getFilteredPhones", table |-> BigTable, filters |-> f] :
            f \in {NoFilters, FiltersOn("ram", 0, 1, <<>>)}}

FilteredInit ==
    /\ ProcessIdle
    /\ IdleMerge
    /\ IdleParse
    /\ call \in FilteredCalls
    /\ result = NoResult

FilteredCall ==
    /\ ~result.done
    /\ result' = [done |-> TRUE, phones |-> selectFiltered(call.table, call.filters)]
    /\ UNCHANGED call

FilteredNext ==
    FilteredCall /\ UNCHANGED procVars /\ UNCHANGED mergeVars /\ UNCHANGED parseVars

SpecFiltered == FilteredInit /\ [][FilteredNext]_vars

\* phone p respects every bound filters f supplies
Respects(f, p) ==
    /\ f.company # <<>> => toLowerCase(p.company_name) = toLowerCase(f.company)
    /\ f.minPrice # Undef => p.price_inr >= f.minPrice
    /\ f.maxPrice # Undef => p.price_inr <= f.maxPrice
    /\ f.minCamera # Undef => p.back_camera_mp >= f.minCamera
    /\ f.maxCamera # Undef => p.back_camera_mp <= f.maxCamera
    /\ f.minBattery # Undef => p.battery_mah >= f.minBattery
    /\ f.maxBattery # Undef => p.battery_mah <= f.maxBattery
    /\ f.minRam # Undef => p.ram_gb >= f.minRam
    /\ f.maxRam # Undef => p.ram_gb <= f.maxRam
    /\ f.minStorage # Undef => p.memory_gb >= f.minStorage
    /\ f.maxStorage # Undef => p.memory_gb <= f.maxStorage

----------------------------------------------------------------------------
(* applyCorrections applied to bounded intents and scores *)

\* most tokens of a drawn brand or model list
MaxTokens == 2

CompanyTokens == {<<"samsung">>, <<"apple">>}

ModelTokens == {<<"galaxy">>, <<"nord">>}

TokenLists(tokens) == UNION {[1..n -> tokens] : n \in 0..MaxTokens}

CorrectionCalls ==
    {[op |-> "applyCorrections",
      intent |-> Intent("query", ListField(c), ListField(m), NoConstraints, "single"),
      companyScores |-> cs, modelScores |-> ms] :
        c \in TokenLists(CompanyTokens), m \in TokenLists(ModelTokens),
        cs \in [1..MaxTokens -> SimilarScores], ms \in [1..MaxTokens -> SimilarScores]}

CorrectionInit ==
    /\ ProcessIdle
    /\ IdleMerge
    /\ IdleParse
    /\ call \in CorrectionCalls
    /\ result = NoResult

\* applyCorrections returns; findSimilar reported the drawn scores
CorrectionCall ==
    /\ ~result.done
    /\ result' = [done |-> TRUE,
                  intent |-> [call.intent EXCEPT
                      !.company = companiesWith(call.intent.company, call.companyScores),
                      !.model = modelsWith(call.intent.model, call.modelScores)]]
    /\ UNCHANGED call

CorrectionNext ==
    CorrectionCall /\ UNCHANGED procVars /\ UNCHANGED mergeVars /\ UNCHANGED parseVars

SpecCorrection == CorrectionInit /\ [][CorrectionNext]_vars

\* C12: applyCorrections replaces a token by the top match exactly when the
\* score of the match is >= 0.7 (0.7 itself accepted) and keeps it otherwise;
\* the corrected lists have the length and order of the input lists.
C12_CorrectsAtThreshold ==
    result.done =>
        /\ Len(result.intent.company.items) = Len(call.intent.company.items)
        /\ Len(result.intent.model.items) = Len(call.intent.model.items)
        /\ \A i \in 1..Len(call.intent.company.items) :
              result.intent.company.items[i] =
                  IF call.companyScores[i] >= AcceptScore
                  THEN nearestCompany(call.intent.company.items[i])
                  ELSE call.intent.company.items[i]
        /\ \A i \in 1..Len(call.intent.model.items) :
              result.intent.model.items[i] =
                  IF call.modelScores[i] >= AcceptScore
                  THEN nearestModel(call.intent.model.items[i])
                  ELSE call.intent.model.items[i]

----------------------------------------------------------------------------
(* VectorClient.findSimilar and searchProducts: which matcher answers *)

\* how a call ended: the matcher that answered ("remote" or "fallback"),
\* whether the remote index was called, the error that reached the caller
\* ("none", "catalog" or "index"), and VectorClient.initialized afterwards
Route(op, route, remoteCalled, error, init) ==
    [op |-> op, route |-> route, remoteCalled |-> remoteCalled, error |-> error,
     init |-> init]

\* initIndex: returns at once when initialized or without a credential;
\* otherwise listIndexes is called and its error is caught
initIndex ==
    IF initialized THEN {[init |-> TRUE, remoteCalled |-> FALSE]}
    ELSE IF ~hasApiKey THEN {[init |-> FALSE, remoteCalled |-> FALSE]}
    ELSE {[init |-> TRUE, remoteCalled |-> TRUE], [init |-> FALSE, remoteCalled |-> TRUE]}

\* fallbackSimilar: getCompanies and searchPhonesByModel run their queries
\* outside any try
fallbackSimilarErrors == IF dbConfigured THEN {"none", "catalog"} ELSE {"catalog"}

\* fallbackProductSearch: queryPhones swallows the error of a query
fallbackProductErrors == IF dbConfigured THEN {"none"} ELSE {"catalog"}

\* findSimilar with no catch around the remote query
findSimilarUncaught ==
    UNION {
      IF ~i.init
      THEN {Route("findSimilar", "fallback", i.remoteCalled, e, i.init) :
               e \in fallbackSimilarErrors}
      ELSE {Route("findSimilar", "remote", TRUE, e, TRUE) : e \in {"none", "index"}} :
      i \in initIndex}

findSimilar ==
    UNION {
      IF ~i.init
      THEN {Route("findSimilar", "fallback", i.remoteCalled, e, i.init) :
               e \in fallbackSimilarErrors}
      ELSE {Route("findSimilar", "remote", TRUE, "none", TRUE)}
           \cup {Route("findSimilar", "fallback", TRUE, e, TRUE) :
                    e \in fallbackSimilarErrors} :
      i \in initIndex}

\* searchProducts without its guard on hasApiKey and initialized
searchProductsUnguarded ==
    {Route("searchProducts", "remote", TRUE, "none", initialized) : ok \in {hasApiKey}}
        \cup {Route("searchProducts", "fallback", TRUE, e, initialized) :
                 e \in fallbackProductErrors}

\* searchProducts: the guard, then the remote query inside a try whose catch
\* runs fallbackProductSearch
searchProductsRoutes ==
    IF ~hasApiKey \/ ~initialized
    THEN {Route("searchProducts", "fallback", FALSE, e, initialized) :
             e \in fallbackProductErrors}
    ELSE {Route("searchProducts", "remote", TRUE, "none", initialized)}
         \cup {Route("searchProducts", "fallback", TRUE, e, initialized) :
                  e \in fallbackProductErrors}

\* most calls made on one VectorClient
MaxCalls == 3

VectorInit ==
    /\ InitProcess
    /\ hasApiKey \in BOOLEAN
    /\ dbConfigured \in BOOLEAN
    /\ IdleMerge
    /\ IdleParse
    /\ call = NoCall
    /\ result = [done |-> FALSE, log |-> <<>>]

VectorFrame ==
    UNCHANGED <<pc, userQuery, filters, history, filters0, history0, previousPhones,
                prevTurn, intent, mergedFilters, phones, errorMessage, response,
                outcome, path, calls, strat, fallbackPhones, hasApiKey, dbConfigured,
                mf, mc, mres, ptext, pres>>

\* a caller awaits findSimilar(token, type)
FindSimilarCall ==
    /\ Len(result.log) < MaxCalls
    /\ \E o \in findSimilar :
          /\ initialized' = o.init
          /\ result' = [done |-> TRUE, log |-> Append(result.log, o)]
    /\ call' = [op |-> "findSimilar"]
    /\ VectorFrame

\* a caller awaits searchProducts(query, filters, topK)
SearchProductsCall ==
    /\ Len(result.log) < MaxCalls
    /\ \E o \in searchProductsRoutes :
          /\ initialized' = o.init
          /\ result' = [done |-> TRUE, log |-> Append(result.log, o)]
    /\ call' = [op |-> "searchProducts"]
    /\ VectorFrame

VectorNext == FindSimilarCall \/ SearchProductsCall

SpecVector == VectorInit /\ [][VectorNext]_vars

\* C13: without a credential findSimilar and searchProducts never call the
\* remote index and answer from the fallback; and whatever the index does
\* (initialisation fails, a remote query throws) no error of the index reaches
\* the caller: the call is answered by the remote index or by the fallback.
C13_IndexFailureFallsBack ==
    \A i \in 1..Len(result.log) :
        /\ ~hasApiKey => ~result.log[i].remoteCalled /\ result.log[i].route = "fallback"
        /\ result.log[i].error # "index"
        /\ result.log[i].route = "remote" => result.log[i].error = "none"

\* C13 witness: with a credential, one call was answered by the fallback
\* after the remote index had been called and failed, with no error.
C13_Witness ==
    \E i \in 1..Len(result.log) :
        /\ hasApiKey
        /\ result.log[i].remoteCalled
        /\ result.log[i].route = "fallback"
        /\ result.log[i].error = "none"

----------------------------------------------------------------------------
(* VectorClient.levenshteinDistance and stringSimilarity, on character strings *)

\* s.charAt(k), k counted from 0
charAt(s, k) == s[k + 1]

\* the inner loop of levenshteinDistance for one i, from column j on:
\* the costs array and lastValue when the loop ends
RECURSIVE costsRow(_, _, _, _, _, _)
costsRow(s1, s2, i, j, costs, lastValue) ==
    IF j > Len(s2) THEN [costs |-> costs, lastValue |-> lastValue]
    ELSE IF i = 0 THEN costsRow(s1, s2, i, j + 1, [costs EXCEPT ![j] = j], lastValue)
    ELSE IF j > 0
    THEN LET newValue ==
                 IF charAt(s1, i - 1) # charAt(s2, j - 1)
                 THEN Min(Min(costs[j - 1], lastValue), costs[j]) + 1
                 ELSE costs[j - 1]
         IN  costsRow(s1, s2, i, j + 1, [costs EXCEPT ![j - 1] = lastValue], newValue)
    ELSE costsRow(s1, s2, i, j + 1, costs, lastValue)

\* the outer loop of levenshteinDistance from row i on: the costs array at the end
RECURSIVE costsFrom(_, _, _, _)
costsFrom(s1, s2, i, costs) ==
    IF i > Len(s1) THEN costs
    ELSE LET row == costsRow(s1, s2, i, 0, costs, i)
         IN  costsFrom(s1, s2, i + 1,
                       IF i > 0 THEN [row.costs EXCEPT ![Len(s2)] = row.lastValue]
                       ELSE row.costs)

\* a distance that compares the strings position by position
levenshteinByPosition(s1, s2) ==
    Cardinality({k \in 1..Min(Len(s1), Len(s2)) : s1[k] # s2[k]})
        + (Max(Len(s1), Len(s2)) - Min(Len(s1), Len(s2)))

levenshteinDistance(s1, s2) ==
    costsFrom(s1, s2, 0, [j \in 0..Len(s2) |-> Undef])[Len(s2)]

\* stringSimilarity as the exact fraction num / den
stringSimilarity(s1, s2) ==
    LET longer == IF Len(s1) > Len(s2) THEN s1 ELSE s2
        shorter == IF Len(s1) > Len(s2) THEN s2 ELSE s1
    IN  IF Len(longer) = 0 THEN [num |-> 1, den |-> 1]
        ELSE [num |-> Len(longer) - levenshteinDistance(longer, shorter),
              den |-> Len(longer)]

\* longest string drawn
MaxWord == 3

Chars == {"a", "b", "c"}

Words == UNION {[1..n -> Chars] : n \in 0..MaxWord}

DistanceCalls == {[op |-> "stringSimilarity", s1 |-> s1, s2 |-> s2] : s1, s2 \in Words}

DistanceInit ==
    /\ ProcessIdle
    /\ IdleMerge
    /\ IdleParse
    /\ call \in DistanceCalls
    /\ result = NoResult

DistanceCall ==
    /\ ~result.done
    /\ result' = [done |-> TRUE,
                  distance |-> levenshteinDistance(call.s1, call.s2),
                  similarity |-> stringSimilarity(call.s1, call.s2)]
    /\ UNCHANGED call
    /\ UNCHANGED procVars
    /\ UNCHANGED mergeVars
    /\ UNCHANGED parseVars

DistanceNext == DistanceCall

SpecDistance == DistanceInit /\ [][DistanceNext]_vars

\* the least number of single-character insertions, deletions and
\* substitutions that turn a into b
RECURSIVE EditDistance(_, _)
EditDistance(a, b) ==
    IF Len(a) = 0 THEN Len(b)
    ELSE IF Len(b) = 0 THEN Len(a)
    ELSE IF Head(a) = Head(b) THEN EditDistance(Tail(a), Tail(b))
    ELSE 1 + Min(EditDistance(Tail(a), Tail(b)),
                 Min(EditDistance(Tail(a), b), EditDistance(a, Tail(b))))

CharsOf(s) == {s[k] : k \in 1..Len(s)}

\* C15: levenshteinDistance is the edit distance; stringSimilarity is
\* (max_len - distance) / max_len, 1 for identical strings and for two empty
\* strings, 0 for strings of equal length with no character in common,
\* symmetric, and between 0 and 1.
C15_DistanceAndSimilarity ==
    result.done =>
        LET s1 == call.s1
            s2 == call.s2
            maxLen == Max(Len(s1), Len(s2))
            sim == result.similarity
            back == stringSimilarity(s2, s1)
        IN  /\ result.distance = EditDistance(s1, s2)
            /\ sim.den > 0
            /\ maxLen > 0 => sim.num * maxLen = (maxLen - EditDistance(s1, s2)) * sim.den
            /\ s1 = s2 => sim.num = sim.den
            /\ Len(s1) = Len(s2) /\ Len(s1) > 0 /\ CharsOf(s1) \cap CharsOf(s2) = {}
                  => sim.num = 0
            /\ sim.num * back.den = back.num * sim.den
            /\ 0 <= sim.num /\ sim.num <= sim.den

\* C15 witness: two different strings of different lengths whose distance is
\* smaller than a position-by-position comparison gives.
C15_Witness ==
    /\ result.done
    /\ Len(call.s1) # Len(call.s2)
    /\ Len(call.s1) > 0 /\ Len(call.s2) > 0
    /\ result.distance < levenshteinByPosition(call.s1, call.s2)
    /\ result.similarity.num > 0

----------------------------------------------------------------------------
(* VectorClient.fallbackSimilar and the correction of one token, on character
   strings *)

\* toLowerCase on the characters drawn
lowerChar(c) ==
    CASE c = "A" -> "a"
      [] c = "B" -> "b"
      [] c = "C" -> "c"
      [] OTHER -> c

lowerChars(s) == [k \in 1..Len(s) |-> lowerChar(s[k])]

\* score > 0.5 keeps a company, in hundredths
FallbackScore == 50

\* Math.max(score, 0.6) for a model, in hundredths
ModelFloor == 60

\* getCompanies(): the stored company names, in name order
storedCompanies == << <<"A", "b", "c">>, <<"C", "a", "a", "b">> >>

\* the stored model names, best rated first
storedModels == << <<"b", "c", "a">>, <<"A", "c", "c", "b">> >>

\* searchPhonesByModel(searchTerm): LOWER(model_name) LIKE LOWER('%term%'),
\* ORDER BY user_rating DESC LIMIT 10
searchPhonesByModel(searchTerm) ==
    slice(SelectSeq(storedModels,
                    LAMBDA name : includes(lowerChars(name), lowerChars(searchTerm))), 10)

\* a > b on scores held as fractions
scoreAbove(a, b) == a.num * b.den > b.num * a.den

hundredths(n) == [num |-> n, den |-> 100]

companyMatches(queryLower) ==
    SelectSeq([k \in 1..Len(storedCompanies) |->
                  [score |-> stringSimilarity(queryLower, lowerChars(storedCompanies[k])),
                   type |-> "company",
                   value |-> storedCompanies[k]]],
              LAMBDA r : scoreAbove(r.score, hundredths(FallbackScore)))

modelMatches(query, queryLower) ==
    LET found == slice(searchPhonesByModel(query), 5)
    IN  [k \in 1..Len(found) |->
            LET score == stringSimilarity(queryLower, lowerChars(found[k]))
            IN  [score |-> IF scoreAbove(hundredths(ModelFloor), score)
                           THEN hundredths(ModelFloor) ELSE score,
                 type |-> "model",
                 value |-> found[k]]]

fallbackSimilar(query, typeFilter) ==
    LET queryLower == lowerChars(query)
        results == IF typeFilter = "company" THEN companyMatches(queryLower)
                   ELSE modelMatches(query, queryLower)
    IN  slice(SortStable(results, LAMBDA a, b : scoreAbove(a.score, b.score)), 5)

\* one turn of a loop of applyCorrections when findSimilar answers from
\* fallbackSimilar: the token pushed on the corrected list
correctedToken(token, typeFilter) ==
    LET similar == fallbackSimilar(token, typeFilter)
    IN  IF Len(similar) > 0 /\ scoreAbove(similar[1].score, hundredths(AcceptScore))
        THEN similar[1].value
        ELSE token

FallbackCalls ==
    {[op |-> "applyCorrections", token |-> t, type |-> ty] :
        t \in Words \ {<<>>}, ty \in {"company", "model"}}

FallbackInit ==
    /\ InitProcess
    /\ hasApiKey = FALSE
    /\ dbConfigured = TRUE
    /\ IdleMerge
    /\ IdleParse
    /\ call \in FallbackCalls
    /\ result = NoResult

FallbackCall ==
    /\ ~result.done
    /\ result' = [done |-> TRUE,
                  similar |-> fallbackSimilar(call.token, call.type),
                  token |-> correctedToken(call.token, call.type)]
    /\ UNCHANGED call
    /\ UNCHANGED procVars
    /\ UNCHANGED mergeVars
    /\ UNCHANGED parseVars

FallbackNext == FallbackCall

SpecFallback == FallbackInit /\ [][FallbackNext]_vars

\* C14: with the index unavailable, a token for which fallbackSimilar finds a
\* known brand or catalog model with similarity above 0.5 is replaced by the
\* best such match in the corrected intent.
C14_FallbackMatchCorrects ==
    result.done /\ Len(result.similar) > 0
                /\ scoreAbove(result.similar[1].score, hundredths(FallbackScore))
        => result.token = result.similar[1].value

----------------------------------------------------------------------------
(* Case of the tokens that reach matching *)

LowerCased(fld) == \A k \in 1..Len(fld.items) : toLowerCase(fld.items[k]) = fld.items[k]

----------------------------------------------------------------------------
(* QueryProcessor.getFallbackResults: the Filters built from the query *)

\* longest query drawn, in words
MaxQuery == 3

QueryWords ==
    {"Samsung", "iphones", "oppo", "under", "over", "20k", "15K", "5000", "2,", "phone"}

KeywordQueries ==
    UNION {[1..n -> QueryWords] : n \in 0..MaxQuery}
        \cup { <<"best", "samsung", "phone", "under", "20k">> }

KeywordInit ==
    /\ ProcessIdle
    /\ IdleMerge
    /\ IdleParse
    /\ call \in {[op |-> "getFallbackResults", query |-> q] : q \in KeywordQueries}
    /\ result = NoResult

KeywordCall ==
    /\ ~result.done
    /\ result' = [done |-> TRUE, filters |-> fallbackFilters(call.query)]
    /\ UNCHANGED call
    /\ UNCHANGED procVars
    /\ UNCHANGED mergeVars
    /\ UNCHANGED parseVars

KeywordNext == KeywordCall

SpecKeyword == KeywordInit /\ [][KeywordNext]_vars

\* the price figure a word states: N x 1000 for 'Nk' or 'NK', the number for a
\* number of 4 to 6 digits, Undef for any other word
PriceFigure(w) ==
    CASE w = "20k" -> 20000
      [] w = "15K" -> 15000
      [] w = "5000" -> 5000
      [] OTHER -> Undef

\* the brand a lower-cased word names: itself or its singular, iphone as apple
BrandNamed(w) ==
    CASE w \in {"samsung", "samsungs"} -> <<"samsung">>
      [] w \in {"apple", "apples", "iphone", "iphones"} -> <<"apple">>
      [] w \in {"oppo", "oppos"} -> <<"oppo">>
      [] OTHER -> <<>>

\* position in the fixed brand list of the brand a word names
BrandOrder(w) ==
    CHOOSE i \in 1..Len(fallbackBrands) :
        w \in {fallbackBrands[i], Plural(fallbackBrands[i])}

\* C17: the keyword fallback sets a price bound only from a price figure
\* ('Nk', 'NK' or a number of 4 to 6 digits): maxPrice = N alone with 'under'
\* or 'below', else minPrice = N alone with 'above' or 'over', else the window
\* max(0, N - 10000) .. N + 10000, and no price bound without a figure; company
\* is the first brand of the fixed list that occurs as a word (singular or
\* plural, iphone as apple), unset when none occurs; and 'best samsung phone
\* under 20k' gives exactly maxPrice 20000 and company samsung.
C17_KeywordFilters ==
    result.done =>
        LET q == call.query
            lower == toLowerCase(q)
            f == result.filters
            figures == {i \in 1..Len(q) : PriceFigure(q[i]) # Undef}
            N == PriceFigure(q[CHOOSE i \in figures : \A j \in figures : i <= j])
            named == {i \in 1..Len(q) : BrandNamed(lower[i]) # <<>>}
            under == \E i \in 1..Len(q) : lower[i] \in {"under", "below"}
            over == \E i \in 1..Len(q) : lower[i] \in {"above", "over"}
        IN  /\ figures = {} => f.minPrice = Undef /\ f.maxPrice = Undef
            /\ figures # {} /\ under => f.maxPrice = N /\ f.minPrice = Undef
            /\ figures # {} /\ ~under /\ over => f.minPrice = N /\ f.maxPrice = Undef
            /\ figures # {} /\ ~under /\ ~over
                  => f.minPrice = Max(0, N - 10000) /\ f.maxPrice = N + 10000
            /\ named = {} => f.company = <<>>
            /\ named # {} =>
                  f.company = BrandNamed(lower[CHOOSE i \in named :
                                  \A j \in named : BrandOrder(lower[i]) <= BrandOrder(lower[j])])
            /\ q = <<"best", "samsung", "phone", "under", "20k">>
                  => f = [NoFilters EXCEPT !.maxPrice = 20000, !.company = <<"samsung">>]

----------------------------------------------------------------------------
(* APIErrorHandler.classifyError *)

ClassifiedError(type, retryable, retryDelayMs) ==
    [type |-> type, retryable |-> retryable, retryDelayMs |-> retryDelayMs]

\* the chain of tests on the lower-cased message of an Error
classifyMessage(message) ==
    IF AnyIncluded(message, {<<"429">>, <<"rate", "limit">>, <<"quota">>})
    THEN ClassifiedError("rate_limit", TRUE, 2000)
    ELSE IF AnyIncluded(message, {<<"network">>, <<"fetch">>, <<"econnrefused">>})
    THEN ClassifiedError("network", TRUE, 1000)
    ELSE IF AnyIncluded(message, {<<"timeout">>, <<"timed", "out">>})
    THEN ClassifiedError("timeout", TRUE, 1500)
    ELSE IF AnyIncluded(message, {<<"401">>, <<"403">>, <<"unauthorized">>, <<"forbidden">>})
    THEN ClassifiedError("auth", FALSE, 0)
    ELSE IF AnyIncluded(message, {<<"invalid">>, <<"malformed">>, <<"parse">>})
    THEN ClassifiedError("invalid_response", TRUE, 500)
    ELSE ClassifiedError("unknown", FALSE, 0)

\* classifyError with no instanceof test: any thrown value is classified by
\* its text
classifyAnyValue(error) == classifyMessage(toLowerCase(error.message))

\* APIErrorHandler.classifyError(error); error.isError is error instanceof Error
APIErrorHandlerClassifyError(error) ==
    IF error.isError
    THEN classifyMessage(toLowerCase(error.message))
    ELSE ClassifiedError("unknown", FALSE, 0)

\* longest error message drawn, in words
MaxMessage == 2

MessageWords ==
    {"429", "Rate", "limit", "quota", "network", "fetch", "timeout", "timed", "out",
     "401", "forbidden", "invalid", "parse", "boom"}

ErrorValues ==
    {[isError |-> e, message |-> m] :
        e \in BOOLEAN, m \in UNION {[1..n -> MessageWords] : n \in 0..MaxMessage}}

ClassifyInit ==
    /\ ProcessIdle
    /\ IdleMerge
    /\ IdleParse
    /\ call \in {[op |-> "classifyError", error |-> e] : e \in ErrorValues}
    /\ result = NoResult

ClassifyCall ==
    /\ ~result.done
    /\ result' = [done |-> TRUE, classified |-> APIErrorHandlerClassifyError(call.error)]
    /\ UNCHANGED call
    /\ UNCHANGED procVars
    /\ UNCHANGED mergeVars
    /\ UNCHANGED parseVars

ClassifyNext == ClassifyCall

SpecClassify == ClassifyInit /\ [][ClassifyNext]_vars

ErrorTypes == {"rate_limit", "network", "timeout", "auth", "invalid_response", "unknown"}

\* C18: classifyError returns one of the six kinds for every value; the result
\* is retryable exactly for rate_limit, network, timeout and invalid_response;
\* auth and unknown are not retryable and have delay 0; a retryable kind has a
\* positive delay; a value that is not an Error is unknown.
C18_ClassifyError ==
    result.done =>
        LET c == result.classified
        IN  /\ c.type \in ErrorTypes
            /\ c.retryable <=> c.type \in {"rate_limit", "network", "timeout", "invalid_response"}
            /\ c.type \in {"auth", "unknown"} => ~c.retryable /\ c.retryDelayMs = 0
            /\ c.retryable => c.retryDelayMs > 0
            /\ ~call.error.isError => c.type = "unknown"

\* C18 witness: a thrown string that mentions a rate limit is classified
\* unknown and not retryable.
C18_Witness ==
    /\ result.done
    /\ ~call.error.isError
    /\ call.error.message = <<"Rate", "limit">>
    /\ result.classified = ClassifiedError("unknown", FALSE, 0)

----------------------------------------------------------------------------
(* Retries before the keyword fallback *)

\* the error process caught is one APIErrorHandler would retry
CaughtRetryable ==
    APIErrorHandlerClassifyError([isError |-> TRUE, message |-> errorMessage]).retryable

\* C19: when the keyword fallback runs after a retryable upstream error, the
\* operation that failed was attempted again before it; after an error that is
\* not retryable the fallback follows the single failed attempt.
C19_RetryBeforeFallback ==
    \A i \in 1..Len(calls) :
        calls[i] = "getFallbackResults" /\ i > 1 =>
            IF CaughtRetryable
            THEN i > 2 /\ calls[i - 2] = calls[i - 1]
            ELSE i > 2 => calls[i - 2] # calls[i - 1]

----------------------------------------------------------------------------
(* The memoized clients: getLLMClient, getVectorClient, getQueryProcessor *)

\* the module-level variables: an instance is 0 for null, else the ordinal of
\* the construction that made it; constructed counts the constructors that
\* returned, attempts the constructors that started
NoInstances(key) ==
    [openaiKey |-> key,
     llmClientInstance |-> 0, vectorClientInstance |-> 0, queryProcessorInstance |-> 0,
     constructed |-> [LLMClient |-> 0, VectorClient |-> 0, QueryProcessor |-> 0],
     attempts |-> [LLMClient |-> 0, VectorClient |-> 0, QueryProcessor |-> 0]]

Got(st, instance) == [st |-> st, ok |-> TRUE, instance |-> instance]
Threw(st) == [st |-> st, ok |-> FALSE, instance |-> 0]

\* new LLMClient(): throws when OPENAI_API_KEY is not set
newLLMClient(st) ==
    LET tried == [st EXCEPT !.attempts.LLMClient = @ + 1]
    IN  IF ~st.openaiKey THEN Threw(tried)
        ELSE Got([tried EXCEPT !.constructed.LLMClient = @ + 1],
                 st.constructed.LLMClient + 1)

\* getLLMClient without the test of llmClientInstance
getLLMClientUnchecked(st) ==
    LET made == newLLMClient(st)
    IN  IF made.ok THEN Got([made.st EXCEPT !.llmClientInstance = made.instance], made.instance)
        ELSE made

getLLMClient(st) ==
    IF st.llmClientInstance # 0 THEN Got(st, st.llmClientInstance)
    ELSE LET made == newLLMClient(st)
         IN  IF made.ok
             THEN Got([made.st EXCEPT !.llmClientInstance = made.instance], made.instance)
             ELSE made

\* new VectorClient(): reads PINECONE_API_KEY and never throws
newVectorClient(st) ==
    Got([st EXCEPT !.attempts.VectorClient = @ + 1, !.constructed.VectorClient = @ + 1],
        st.constructed.VectorClient + 1)

getVectorClient(st) ==
    IF st.vectorClientInstance # 0 THEN Got(st, st.vectorClientInstance)
    ELSE LET made == newVectorClient(st)
         IN  Got([made.st EXCEPT !.vectorClientInstance = made.instance], made.instance)

\* new QueryProcessor(): this.llm = getLLMClient(); this.vector = getVectorClient()
newQueryProcessor(st) ==
    LET tried == [st EXCEPT !.attempts.QueryProcessor = @ + 1]
        llm == getLLMClient(tried)
        vector == getVectorClient(llm.st)
    IN  IF ~llm.ok THEN Threw(llm.st)
        ELSE Got([vector.st EXCEPT !.constructed.QueryProcessor = @ + 1],
                 st.constructed.QueryProcessor + 1)

getQueryProcessor(st) ==
    IF st.queryProcessorInstance # 0 THEN Got(st, st.queryProcessorInstance)
    ELSE LET made == newQueryProcessor(st)
         IN  IF made.ok
             THEN Got([made.st EXCEPT !.queryProcessorInstance = made.instance], made.instance)
             ELSE made

\* concurrent requests, and the getter calls each of them makes
MaxRequests == 2

MaxGets == 2

Requests == 1..MaxRequests

SingletonInit ==
    /\ ProcessIdle
    /\ IdleMerge
    /\ IdleParse
    /\ call = [r \in Requests |-> <<>>]
    /\ result \in {NoInstances(key) : key \in BOOLEAN}

\* the outcome o of a getter, appended to the calls of request r
Gets(r, getter, o) ==
    [call EXCEPT ![r] = Append(@, [getter |-> getter, ok |-> o.ok, instance |-> o.instance])]

\* a request runs one getter to its end (the getters and the constructors are
\* synchronous, so no other request runs in between)
GetLLMClient ==
    /\ \E r \in Requests :
          /\ Len(call[r]) < MaxGets
          /\ call' = Gets(r, "getLLMClient", getLLMClient(result))
    /\ result' = getLLMClient(result).st
    /\ UNCHANGED procVars
    /\ UNCHANGED mergeVars
    /\ UNCHANGED parseVars

GetVectorClient ==
    /\ \E r \in Requests :
          /\ Len(call[r]) < MaxGets
          /\ call' = Gets(r, "getVectorClient", getVectorClient(result))
    /\ result' = getVectorClient(result).st
    /\ UNCHANGED procVars
    /\ UNCHANGED mergeVars
    /\ UNCHANGED parseVars

GetQueryProcessor ==
    /\ \E r \in Requests :
          /\ Len(call[r]) < MaxGets
          /\ call' = Gets(r, "getQueryProcessor", getQueryProcessor(result))
    /\ result' = getQueryProcessor(result).st
    /\ UNCHANGED procVars
    /\ UNCHANGED mergeVars
    /\ UNCHANGED parseVars

SingletonNext == GetLLMClient \/ GetVectorClient \/ GetQueryProcessor

SpecSingleton == SingletonInit /\ [][SingletonNext]_vars

\* the getter calls made so far, as request and position
Returns == {<<r, k>> : r \in Requests, k \in 1..MaxGets}

Made == {c \in Returns : c[2] <= Len(call[c[1]])}

MemoizedFor(getter) ==
    CASE getter = "getLLMClient" -> result.llmClientInstance
      [] getter = "getVectorClient" -> result.vectorClientInstance
      [] getter = "getQueryProcessor" -> result.queryProcessorInstance

\* C20: whatever the order in which concurrent requests call the three
\* getters, each class is constructed successfully at most once, every call
\* that returns gets the one memoized instance, and while construction has
\* only thrown nothing is memoized and every further call runs the constructor
\* again.
C20_ConstructedOnce ==
    /\ result.constructed.LLMClient <= 1
    /\ result.constructed.VectorClient <= 1
    /\ result.constructed.QueryProcessor <= 1
    /\ \A c \in Made :
          LET o == call[c[1]][c[2]]
          IN  o.ok => o.instance = 1 /\ o.instance = MemoizedFor(o.getter)
    /\ \A c \in Made :
          LET o == call[c[1]][c[2]]
          IN  ~o.ok => MemoizedFor(o.getter) = 0
    /\ result.llmClientInstance = 0 =>
          result.attempts.LLMClient =
              Cardinality({c \in Made :
                  call[c[1]][c[2]].getter \in {"getLLMClient", "getQueryProcessor"}})

\* C20 witness: two requests each obtained the QueryProcessor, built once, and
\* one of them also asked for the LLMClient built inside it.
C20_Witness ==
    /\ \A r \in Requests :
          \E k \in 1..Len(call[r]) :
              call[r][k].getter = "getQueryProcessor" /\ call[r][k].ok
    /\ \E r \in Requests :
          \E k \in 1..Len(call[r]) :
              call[r][k].getter = "getLLMClient" /\ call[r][k].ok
    /\ result.constructed.QueryProcessor = 1
    /\ result.attempts.LLMClient = 1

----------------------------------------------------------------------------
(* LLMClient.getUniquePhones on phones with drawn names *)

\* most phones handed to getUniquePhones
MaxPhones == 3

\* company and model names, as characters
Names == { <<"a">>, <<"a", "-", "a">> }

NamedPhones ==
    UNION {{[i \in 1..n |-> [id |-> i, company_name |-> c[i], model_name |-> m[i]]] :
               c \in [1..n -> Names], m \in [1..n -> Names]} : n \in 0..MaxPhones}

UniqueInit ==
    /\ ProcessIdle
    /\ IdleMerge
    /\ IdleParse
    /\ call \in {[op |-> "getUniquePhones", phones |-> phs, limit |-> l] :
                    phs \in NamedPhones, l \in {2, SummaryLimit}}
    /\ result = NoResult

UniqueCall ==
    /\ ~result.done
    /\ result' = [done |-> TRUE, unique |-> getUniquePhones(call.phones, call.limit)]
    /\ UNCHANGED call
    /\ UNCHANGED procVars
    /\ UNCHANGED mergeVars
    /\ UNCHANGED parseVars

UniqueNext == UniqueCall

SpecUnique == UniqueInit /\ [][UniqueNext]_vars

SamePair(p, q) == p.company_name = q.company_name /\ p.model_name = q.model_name

\* the positions of phs that hold the first occurrence of a (brand, model) pair
FirstOccurrences(phs) ==
    {i \in 1..Len(phs) : \A j \in 1..(i - 1) : ~SamePair(phs[j], phs[i])}

\* C21: getUniquePhones returns a subsequence of its input with pairwise
\* distinct (brand, model) pairs and at most limit entries, which holds the
\* first occurrence of every pair up to the limit (a phone is dropped only for
\* an earlier phone of the same brand and model); and applying it twice gives
\* the same list.
C21_DedupByBrandAndModel ==
    result.done =>
        LET phs == call.phones
            unique == result.unique
        IN  /\ Len(unique) <= call.limit
            /\ \A k \in 1..Len(unique) : phs[unique[k].id] = unique[k]
            /\ \A k \in 1..(Len(unique) - 1) : unique[k].id < unique[k + 1].id
            /\ \A k \in 1..Len(unique) : \A l \in 1..Len(unique) :
                  k # l => ~SamePair(unique[k], unique[l])
            /\ \A i \in FirstOccurrences(phs) :
                  Cardinality({j \in FirstOccurrences(phs) : j < i}) < call.limit
                      => \E k \in 1..Len(unique) : unique[k].id = i
            /\ getUniquePhones(unique, call.limit) = unique

----------------------------------------------------------------------------
(* A retrieval that found nothing *)

\* C22: when the retrieval path of a request ends with no phone and no error,
\* process returns phones = [] with the fixed message that invites the user to
\* adjust price range, brand or features, and no error or warning; the
\* generation service is not asked for a summary, so the summary step can
\* neither fail nor carry a generated text.
C22_EmptyResultMessage ==
    /\ pc = "done" /\ path = "main" /\ phones = <<>>
          => response = ReplyPhones(NoResultsMessage, <<>>)
    /\ pc = "catch" /\ Called("mergeFilters") /\ LastCall = "summarize" => phones # <<>>

\* C22 witness: the three strategies of the single path each returned nothing
\* and the request returned.
C22_Witness ==
    /\ pc = "done"
    /\ path = "main"
    /\ strat = [semantic |-> "empty", sql |-> "empty", filtered |-> "empty"]
    /\ response.message = NoResultsMessage
    /\ response.phones = <<>>

----------------------------------------------------------------------------
(* LLMClient.generateSQL: from the text of the completion to the SQL executed *)

SqlWord == Tok("sql")

\* toUpperCase on the words drawn
upperTok(t) == IF t = Tok("select") THEN Tok("SELECT") ELSE IF t = Tok("limit") THEN Tok("LIMIT") ELSE t

\* the SQL generateSQL returns for a completion, or the error it throws
generateSQLFrom(completion) ==
    LET s0 == trim(completion)
        s1 == IF Len(s0) >= 2 /\ s0[1] = Fence /\ s0[2] = SqlWord
              THEN SubSeq(s0, 3, Len(s0)) ELSE s0
        s2 == IF s1 # <<>> /\ s1[1] = Fence THEN Tail(s1) ELSE s1
        s3 == IF s2 # <<>> /\ s2[Len(s2)] = Fence THEN SubSeq(s2, 1, Len(s2) - 1) ELSE s2
        sql == trim(s3)
    IN  IF sql = <<>> \/ upperTok(sql[1]) # Tok("SELECT")
        THEN [ok |-> FALSE, sql |-> <<>>]
        ELSE IF \E k \in 1..Len(sql) : upperTok(sql[k]) = Tok("LIMIT")
        THEN [ok |-> TRUE, sql |-> sql]
        ELSE [ok |-> TRUE, sql |-> sql \o <<Ws, Tok("LIMIT"), Ws, Tok("5")>>]

\* longest completion drawn, in tokens
MaxSql == 3

SqlTokens ==
    {Ws, Fence, SqlWord, Tok("SELECT"), Tok("select"), Tok("DELETE"), Tok(";"),
     Tok("LIMIT"), Tok("5"), Tok("100"), Tok("phones")}

SqlInit ==
    /\ ProcessIdle
    /\ IdleMerge
    /\ IdleParse
    /\ call \in {[op |-> "generateSQL", text |-> r] :
                    r \in UNION {[1..n -> SqlTokens] : n \in 0..MaxSql}}
    /\ result = NoResult

\* generateSQL, then queryPhones(sql) when it returned
SqlCall ==
    /\ ~result.done
    /\ result' = [done |-> TRUE,
                  executed |-> generateSQLFrom(call.text).ok,
                  sql |-> generateSQLFrom(call.text).sql]
    /\ UNCHANGED call
    /\ UNCHANGED procVars
    /\ UNCHANGED mergeVars
    /\ UNCHANGED parseVars

SqlNext == SqlCall

SpecSql == SqlInit /\ [][SqlNext]_vars

\* the words of a statement, white space left out
WordsOf(sql) == SelectSeq(sql, LAMBDA t : t # Ws)

\* C23: whatever text the generation service returns, the SQL handed to the
\* catalog accessor is one read-only SELECT statement (it starts with SELECT,
\* holds no second statement and no write) that ends with a LIMIT of at most
\* 10 rows.
C23_ExecutedSqlIsCappedSelect ==
    result.done /\ result.executed =>
        LET w == WordsOf(result.sql)
        IN  /\ upperTok(w[1]) = Tok("SELECT")
            /\ \A k \in 1..Len(w) : w[k] \notin {Tok(";"), Tok("DELETE")}
            /\ Len(w) >= 3
            /\ upperTok(w[Len(w) - 1]) = Tok("LIMIT")
            /\ w[Len(w)] \in {Tok("5"), Tok("10")}

----------------------------------------------------------------------------
(* The compare list of the page: handleAddToCompare, handleRemoveFromCompare *)

\* prev.length >= 4
CompareLimit == 4

\* phone ids the user can act on
MaxPhoneId == 5

PhoneIds == 1..MaxPhoneId

hasId(list, id) == \E k \in 1..Len(list) : list[k] = id

\* the updater of handleAddToCompare with no test for a phone already listed
addToCompareUnchecked(prev, id) ==
    IF Len(prev) >= CompareLimit
    THEN [list |-> Tail(prev) \o <<id>>, toast |-> "added to Compare tab (replaced oldest)"]
    ELSE [list |-> Append(prev, id), toast |-> "added to Compare tab"]

\* the updater of handleAddToCompare: the next list and the toast it sets
addToCompare(prev, id) ==
    IF hasId(prev, id) THEN [list |-> prev, toast |-> "already in Compare tab"]
    ELSE IF Len(prev) >= CompareLimit
    THEN [list |-> Tail(prev) \o <<id>>, toast |-> "added to Compare tab (replaced oldest)"]
    ELSE [list |-> Append(prev, id), toast |-> "added to Compare tab"]

\* the updater of handleRemoveFromCompare
removeFromCompare(prev, phoneId) == SelectSeq(prev, LAMBDA id : id # phoneId)

\* useState<Phone[]>([]), no toast
CompareInit ==
    /\ ProcessIdle
    /\ IdleMerge
    /\ IdleParse
    /\ call = NoCall
    /\ result = [comparePhones |-> <<>>, toast |-> "none"]

handleAddToCompare ==
    /\ \E id \in PhoneIds :
          /\ call' = [op |-> "add", id |-> id, prev |-> result.comparePhones]
          /\ result' = [comparePhones |-> addToCompare(result.comparePhones, id).list,
                        toast |-> addToCompare(result.comparePhones, id).toast]
    /\ UNCHANGED procVars
    /\ UNCHANGED mergeVars
    /\ UNCHANGED parseVars

handleRemoveFromCompare ==
    /\ \E id \in PhoneIds :
          /\ call' = [op |-> "remove", id |-> id, prev |-> result.comparePhones]
          /\ result' = [result EXCEPT !.comparePhones = removeFromCompare(@, id)]
    /\ UNCHANGED procVars
    /\ UNCHANGED mergeVars
    /\ UNCHANGED parseVars

CompareNext == handleAddToCompare \/ handleRemoveFromCompare

SpecCompare == CompareInit /\ [][CompareNext]_vars

\* C24: after any sequence of adds and removes the compare list holds at most
\* 4 phones with pairwise distinct ids; adding a listed phone changes nothing;
\* adding a new phone to a list of 4 drops the oldest and appends the new one;
\* removing an id that is not listed changes nothing.
C24_CompareList ==
    LET list == result.comparePhones
    IN  /\ Len(list) <= 4
        /\ \A k \in 1..Len(list) : \A l \in 1..Len(list) : k # l => list[k] # list[l]
        /\ call.op = "add" /\ hasId(call.prev, call.id) => list = call.prev
        /\ call.op = "add" /\ ~hasId(call.prev, call.id) /\ Len(call.prev) = 4
              => list = Tail(call.prev) \o <<call.id>>
        /\ call.op = "add" /\ ~hasId(call.prev, call.id) /\ Len(call.prev) < 4
              => list = call.prev \o <<call.id>>
        /\ call.op = "remove" /\ ~hasId(call.prev, call.id) => list = call.prev
        /\ call.op = "remove" => ~hasId(list, call.id)

\* C24 witness: a fifth phone was added to a full list and replaced the oldest.
C24_Witness ==
    /\ call.op = "add"
    /\ Len(call.prev) = 4
    /\ ~hasId(call.prev, call.id)
    /\ result.comparePhones = Tail(call.prev) \o <<call.id>>
    /\ result.toast = "added to Compare tab (replaced oldest)"

----------------------------------------------------------------------------
(* The retrieval path of a request *)

\* the path was entered: control stands at its first step or it was called
Entered(label, op) == pc = label \/ Called(op)

\* C25: once the intent is corrected, the request takes the multi-model path
\* exactly when comparison_type is multi and a model is named, the multi-brand
\* path exactly when comparison_type is multi, no model is named and two or
\* more brands are named, and the single chain otherwise; it never takes two.
C25_OnePathPerIntent ==
    Called("mergeFilters") =>
        LET multi == intent.comparison_type = "multi"
            models == FieldLength(intent.model)
            brands == FieldLength(intent.company)
            mm == Entered("multimodel", "processMultiModel")
            mb == Entered("multibrand", "processMultiBrand")
            single == Entered("semantic", "semantic")
        IN  /\ mm <=> multi /\ models >= 1
            /\ mb <=> multi /\ models = 0 /\ brands >= 2
            /\ single <=> ~(multi /\ models >= 1) /\ ~(multi /\ models = 0 /\ brands >= 2)
            /\ ~(mm /\ mb) /\ ~(mm /\ single) /\ ~(mb /\ single)

\* C25 witness: a request with comparison_type multi that names no model and
\* exactly two brands went down the multi-brand path and returned.
C25_Witness ==
    /\ pc = "done"
    /\ Called("processMultiBrand")
    /\ FieldLength(intent.model) = 0
    /\ FieldLength(intent.company) = 2
    /\ path = "main"

----------------------------------------------------------------------------
(* The follow-up branch of step 5 *)

\* C30: in every request that reaches step 5 the query matches no follow-up
\* phrase or the history carries no phones, so step 5 never takes its
\* follow-up branch and the phones of a classified request never come from
\* the history there.
C30_FollowUpBranchDead ==
    Called("mergeFilters") =>
        /\ ~(isFollowUpQuery(userQuery) /\ Len(previousPhones) > 0)
        /\ executePath(intent, userQuery, previousPhones) # "history"
        /\ Entered("multimodel", "processMultiModel")
              \/ Entered("multibrand", "processMultiBrand")
              \/ Entered("semantic", "semantic")

\* C30 witness: a query with a follow-up phrase and a history without phones
\* was classified, reached step 5 and returned from the single chain.
C30_Witness ==
    /\ pc = "done"
    /\ Called("mergeFilters")
    /\ isFollowUpQuery(userQuery)
    /\ previousPhones = <<>>
    /\ Called("semantic")
    /\ path = "main"

----------------------------------------------------------------------------
(* QueryProcessor.processMultiModel on drawn intents *)

\* most models an intent names
MaxModels == 2

ModelNames ==
    { <<"s24">>, <<"iphone", "15">>, <<"nord">>, <<"x99">>, <<"15">>, <<"Galaxy", "S24">> }

CompanyNames == { <<"samsung">>, <<"apple">>, <<"Samsung">> }

MultiModelInit ==
    /\ ProcessIdle
    /\ IdleMerge
    /\ IdleParse
    /\ call \in {[op |-> "processMultiModel", models |-> ms, companies |-> cs] :
                    ms \in UNION {[1..n -> ModelNames] : n \in 1..MaxModels},
                    cs \in UNION {[1..n -> CompanyNames] : n \in 0..MaxModels}}
    /\ result = NoResult

MultiModelCall ==
    /\ ~result.done
    /\ result' = [done |-> TRUE,
                  phones |-> multiModelFrom(call.models, call.companies, 1),
                  found |-> [i \in 1..Len(call.models) |->
                                lookupModel(call.models, call.companies, i)]]
    /\ UNCHANGED call
    /\ UNCHANGED procVars
    /\ UNCHANGED mergeVars
    /\ UNCHANGED parseVars

MultiModelNext == MultiModelCall

SpecMultiModel == MultiModelInit /\ [][MultiModelNext]_vars

\* the best-rated row whose model name contains the term, as a list
BestByModel(term) == topByRating(LAMBDA p : like(p.model_name, term), 1)

\* the brand of the model at index i: the intent's, else the inferred one
BrandFor(models, companies, i) ==
    IF i <= Len(companies) THEN companies[i]
    ELSE IF Len(companies) > 0 THEN companies[1]
    ELSE inferCompanyFromModel(models[i])

\* what each strategy yields for the model at index i, in the fixed order:
\* alias table, brand+model, model only, brand-prefixed retry
StrategyResults(models, companies, i) ==
    LET model == models[i]
        brand == BrandFor(models, companies, i)
        aliases == modelAliases(toLowerCase(model))
        prefix == IF brand = <<"samsung">> \/ startsWithSDigits(toLowerCase(model))
                  THEN BestByModel(<<"galaxy">> \o model)
                  ELSE <<>>
        retry == IF prefix = <<>> /\ brand = <<"apple">>
                        /\ ~includes(toLowerCase(model), <<"iphone">>)
                 THEN BestByModel(<<"iphone">> \o model)
                 ELSE prefix
    IN  << firstNonEmpty([k \in 1..Len(aliases) |-> BestByModel(aliases[k])]),
           IF brand # <<>>
           THEN topByRating(LAMBDA p : like(p.company_name, brand) /\ like(p.model_name, model), 1)
           ELSE <<>>,
           BestByModel(model),
           retry >>

RECURSIVE Concat(_, _)
Concat(lists, i) == IF i > Len(lists) THEN <<>> ELSE lists[i] \o Concat(lists, i + 1)

\* C26: for each named model processMultiModel keeps the result of the first
\* strategy, in the order alias table, brand+model, model only, brand-prefixed
\* retry, that yields a row, with the brand taken from the intent or else
\* inferred from the model; a model no strategy matches adds nothing and the
\* later models are still looked up; the result holds at most one phone per
\* model, in the order of the models.
C26_MultiModelLookup ==
    result.done =>
        /\ \A i \in 1..Len(call.models) :
              /\ result.found[i] = firstNonEmpty(StrategyResults(call.models, call.companies, i))
              /\ Len(result.found[i]) <= 1
        /\ result.phones = Concat(result.found, 1)
        /\ Len(result.phones) <= Len(call.models)

\* C26 witness: the first model is matched by no strategy, and the second,
\* which has no alias, is found by brand and model with the brand of the
\* intent.
C26_Witness ==
    /\ result.done
    /\ Len(call.models) = 2
    /\ result.found[1] = <<>>
    /\ StrategyResults(call.models, call.companies, 2)[1] = <<>>
    /\ StrategyResults(call.models, call.companies, 2)[2] # <<>>
    /\ Len(call.companies) = 1
    /\ Len(result.phones) = 1

----------------------------------------------------------------------------
(* QueryProcessor.processMultiBrand on drawn brands *)

\* most brands an intent names
MaxBrands == 3

BrandNames == { <<"samsung">>, <<"Galaxy">>, <<"iphone">>, <<"redmi">>, <<"nokia">> }

\* a table with more than three rows of one brand, two of them rated alike
BrandTable ==
    << Phone(1, <<"Samsung">>, <<"Galaxy", "S24">>, 45, 70000, 8, 4000, 50, 128),
       Phone(2, <<"Samsung">>, <<"Galaxy", "A55">>, 45, 60000, 8, 5000, 50, 128),
       Phone(3, <<"Samsung">>, <<"Galaxy", "M54">>, 40, 10000, 8, 6000, 108, 128),
       Phone(4, <<"Samsung">>, <<"Galaxy", "Fold">>, 47, 90000, 12, 4400, 50, 256),
       Phone(5, <<"Apple">>, <<"iPhone", "15">>, 46, 80000, 6, 3300, 48, 128) >>

MultiBrandInit ==
    /\ ProcessIdle
    /\ IdleMerge
    /\ IdleParse
    /\ call \in {[op |-> "processMultiBrand", table |-> t, companies |-> cs] :
                    t \in {Catalog, BrandTable},
                    cs \in UNION {[1..n -> BrandNames] : n \in 0..MaxBrands}}
    /\ result = NoResult

MultiBrandCall ==
    /\ ~result.done
    /\ result' = [done |-> TRUE,
                  phones |-> multiBrandIn(call.table, call.companies, 1, <<>>),
                  rows |-> [i \in 1..Len(call.companies) |->
                               brandRowsIn(call.table, call.companies[i])]]
    /\ UNCHANGED call
    /\ UNCHANGED procVars
    /\ UNCHANGED mergeVars
    /\ UNCHANGED parseVars

MultiBrandNext == MultiBrandCall

SpecMultiBrand == MultiBrandInit /\ [][MultiBrandNext]_vars

\* the rows of the table that belong to the brand: those the first search
\* term with any row matches
RowsOfBrand(table, company) ==
    LET terms == searchTerms(company)
        rowsOf(k) == {j \in 1..Len(table) : like(table[j].company_name, terms[k])}
    IN  IF \E k \in 1..Len(terms) : rowsOf(k) # {}
        THEN {table[j] : j \in rowsOf(CHOOSE k \in 1..Len(terms) :
                                        rowsOf(k) # {} /\ \A l \in 1..(k - 1) : rowsOf(l) = {})}
        ELSE {}

\* p comes before q by rating descending, then price ascending
Better(p, q) ==
    \/ p.user_rating > q.user_rating
    \/ p.user_rating = q.user_rating /\ p.price_inr < q.price_inr

\* C27: processMultiBrand takes for each named brand the best rows of that
\* brand, at most 3, by rating descending then price ascending; the combined
\* result holds no id twice, at most 3 phones per named brand, and exactly the
\* rows taken for the brands; a brand without rows adds nothing.
C27_MultiBrandTopThree ==
    result.done =>
        /\ \A i \in 1..Len(call.companies) :
              LET rows == result.rows[i]
                  all == RowsOfBrand(call.table, call.companies[i])
              IN  /\ Len(rows) = Min(3, Cardinality(all))
                  /\ \A k \in 1..Len(rows) :
                        /\ rows[k] \in all
                        /\ Cardinality({q \in all : Better(q, rows[k])}) = k - 1
        /\ \A k \in 1..Len(result.phones) : \A l \in 1..Len(result.phones) :
              k # l => result.phones[k].id # result.phones[l].id
        /\ Len(result.phones) <= 3 * Len(call.companies)
        /\ {result.phones[k] : k \in 1..Len(result.phones)}
              = UNION {{result.rows[i][k] : k \in 1..Len(result.rows[i])} :
                          i \in 1..Len(call.companies)}

\* C27 witness: a brand with four rows gave its best three, a brand named by
\* an alias gave rows already taken, and a brand without rows gave nothing.
C27_Witness ==
    /\ result.done
    /\ call.companies = << <<"samsung">>, <<"Galaxy">>, <<"nokia">> >>
    /\ call.table = BrandTable
    /\ [k \in 1..3 |-> result.phones[k].id] = <<4, 2, 1>>
    /\ Len(result.phones) = 3

----------------------------------------------------------------------------
(* APIErrorHandler.handleWithRetry *)

\* largest maxRetries drawn
MaxRetries == 3

\* what fn() settles with
Resolved(value) == [ok |-> TRUE, value |-> value]
Rejected(error) == [ok |-> FALSE, error |-> error]

ErrorOf(isError, message) == [isError |-> isError, message |-> message]

MaxRetriesExceeded == ErrorOf(TRUE, <<"Max", "retries", "exceeded">>)

ThrownValues ==
    { ErrorOf(TRUE, <<"429">>), ErrorOf(TRUE, <<"network">>), ErrorOf(TRUE, <<"timed", "out">>),
      ErrorOf(TRUE, <<"401">>), ErrorOf(TRUE, <<"parse">>), ErrorOf(TRUE, <<"boom">>),
      ErrorOf(FALSE, <<"429">>) }

Outcomes == {Resolved("value")} \cup {Rejected(e) : e \in ThrownValues}

\* error instanceof Error ? error : new Error(String(error))
asError(error) == IF error.isError THEN error ELSE ErrorOf(TRUE, error.message)

\* the events handleWithRetry causes
FnEvent(settled) == [ev |-> "fn", outcome |-> settled]
OnRetryEvent(attempt, classified) == [ev |-> "onRetry", attempt |-> attempt, classified |-> classified]
SleepEvent(ms) == [ev |-> "sleep", ms |-> ms]

\* the test that ends the loop with the last error, were non-retryable
\* failures retried like any other
rethrowsOnlyFinal(classified, attempt, maxRetries) == attempt = maxRetries

\* !classified.retryable || attempt === maxRetries
rethrows(classified, attempt, maxRetries) == ~classified.retryable \/ attempt = maxRetries

\* classified.retryDelayMs * Math.pow(2, attempt - 1)
backoff(classified, attempt) == classified.retryDelayMs * 2 ^ (attempt - 1)

RetryInit ==
    /\ ProcessIdle
    /\ IdleMerge
    /\ IdleParse
    /\ call \in {[op |-> "handleWithRetry", maxRetries |-> n, onRetry |-> o] :
                    n \in 0..MaxRetries, o \in BOOLEAN}
    /\ result = [done |-> FALSE, pos |-> "loop", attempt |-> 1, lastError |-> Undef, log |-> <<>>]

\* one turn of the loop body: await fn(), and on a rejection the catch block
\* up to the start of the sleep
RetryAttempt ==
    /\ result.pos = "loop"
    /\ result.attempt <= call.maxRetries
    /\ \E settled \in Outcomes :
          LET log == Append(result.log, FnEvent(settled))
          IN  IF settled.ok
              THEN result' = [result EXCEPT !.done = TRUE, !.pos = "returned", !.log = log,
                                            !.lastError = settled.value]
              ELSE LET lastError == asError(settled.error)
                       classified == APIErrorHandlerClassifyError(settled.error)
                   IN  IF rethrows(classified, result.attempt, call.maxRetries)
                       THEN result' = [result EXCEPT !.done = TRUE, !.pos = "thrown",
                                                     !.log = log, !.lastError = lastError]
                       ELSE result' = [result EXCEPT
                                !.pos = "sleep",
                                !.lastError = lastError,
                                !.log = log
                                    \o (IF call.onRetry
                                        THEN <<OnRetryEvent(result.attempt, classified)>>
                                        ELSE <<>>)
                                    \o <<SleepEvent(backoff(classified, result.attempt))>>]
    /\ UNCHANGED call
    /\ UNCHANGED procVars
    /\ UNCHANGED mergeVars
    /\ UNCHANGED parseVars

\* the timer of sleep fires; attempt++
RetryWake ==
    /\ result.pos = "sleep"
    /\ result' = [result EXCEPT !.pos = "loop", !.attempt = result.attempt + 1]
    /\ UNCHANGED call
    /\ UNCHANGED procVars
    /\ UNCHANGED mergeVars
    /\ UNCHANGED parseVars

\* the loop condition fails: throw lastError || new Error('Max retries exceeded')
RetryExhausted ==
    /\ result.pos = "loop"
    /\ result.attempt > call.maxRetries
    /\ result' = [result EXCEPT !.done = TRUE, !.pos = "thrown",
                                !.lastError = IF result.lastError = Undef
                                              THEN MaxRetriesExceeded ELSE result.lastError]
    /\ UNCHANGED call
    /\ UNCHANGED procVars
    /\ UNCHANGED mergeVars
    /\ UNCHANGED parseVars

RetryNext == RetryAttempt \/ RetryWake \/ RetryExhausted

\* fn's promise settles and the timer of sleep fires
SpecRetry == RetryInit /\ [][RetryNext]_vars /\ WF_vars(RetryNext)

\* the base delay of each retryable kind
BaseDelay(kind) ==
    CASE kind = "rate_limit" -> 2000
      [] kind = "network" -> 1000
      [] kind = "timeout" -> 1500
      [] kind = "invalid_response" -> 500
      [] OTHER -> 0

\* the outcomes of the calls of fn, in order
FnOutcomes(log) ==
    LET fns == SelectSeq(log, LAMBDA e : e.ev = "fn")
    IN  [k \in 1..Len(fns) |-> fns[k].outcome]

KindOf(settled) == APIErrorHandlerClassifyError(settled.error).type

RetryableOutcome(settled) ==
    /\ ~settled.ok
    /\ settled.error.isError
    /\ KindOf(settled) \in {"rate_limit", "network", "timeout", "invalid_response"}

\* what is to happen around the calls of fn: after the k-th call, when another
\* follows, one onRetry (if given) and one wait of BaseDelay x 2^(k-1)
RECURSIVE RetryLog(_, _, _)
RetryLog(outs, k, onRetry) ==
    IF k > Len(outs) THEN <<>>
    ELSE <<FnEvent(outs[k])>>
         \o (IF k < Len(outs)
             THEN (IF onRetry
                   THEN <<OnRetryEvent(k, APIErrorHandlerClassifyError(outs[k].error))>>
                   ELSE <<>>)
                  \o <<SleepEvent(BaseDelay(KindOf(outs[k])) * 2 ^ (k - 1))>>
             ELSE <<>>)
         \o RetryLog(outs, k + 1, onRetry)

RetryShape ==
    LET outs == FnOutcomes(result.log)
        n == Len(outs)
    IN  /\ n <= call.maxRetries
        /\ \A k \in 1..(n - 1) : RetryableOutcome(outs[k])
        /\ result.done =>
              /\ result.log = RetryLog(outs, 1, call.onRetry)
              /\ result.pos = "returned" =>
                    n >= 1 /\ outs[n].ok /\ result.lastError = outs[n].value
              /\ result.pos = "thrown" /\ n >= 1 =>
                    /\ ~outs[n].ok
                    /\ result.lastError.message = outs[n].error.message
                    /\ ~RetryableOutcome(outs[n]) \/ n = call.maxRetries
              /\ n = 0 => result.pos = "thrown"

\* C28: handleWithRetry ends; it calls fn at most maxRetries times; it returns
\* the first success with nothing after it; a non-retryable failure is
\* rethrown at once and the maxRetries-th failure is rethrown; after the k-th
\* failure that is retried it calls onRetry once (when given) and waits
\* baseDelay(kind) x 2^(k-1), and does neither after the last attempt.
C28_RetryTerminates == []RetryShape /\ <>(result.done)

\* C28 witness: three attempts failed with retryable errors, the waits were
\* 1000 and then 1000 (500 x 2), onRetry ran twice and the third error was
\* rethrown.
C28_Witness ==
    /\ result.pos = "thrown"
    /\ call.maxRetries = 3
    /\ call.onRetry
    /\ Len(FnOutcomes(result.log)) = 3
    /\ SelectSeq(result.log, LAMBDA e : e.ev = "sleep") = <<SleepEvent(1000), SleepEvent(1000)>>
    /\ Len(SelectSeq(result.log, LAMBDA e : e.ev = "onRetry")) = 2
    /\ result.lastError = ErrorOf(TRUE, <<"timed", "out">>)

----------------------------------------------------------------------------
(* VectorClient.searchProducts on a client that has the credential *)

\* the remote index answered every call that reached it before call i
IndexReachable(i) ==
    \A j \in 1..(i - 1) : result.log[j].remoteCalled => result.log[j].route = "remote"

\* C29: with the credential configured and the remote index reachable, every
\* searchProducts call queries the remote index, the first call made on a
\* fresh client included, whether or not findSimilar ran before it.
C29_SemanticQueriesIndex ==
    \A i \in 1..Len(result.log) :
        hasApiKey /\ result.log[i].op = "searchProducts" /\ IndexReachable(i)
            => result.log[i].remoteCalled

====
